---- MODULE Spec2Model ----
(***************************************************************************)
(* simsched: a cooperative scheduling simulator.                           *)
(*                                                                         *)
(* A simthread is a generator that publishes a ThreadState each time it    *)
(* suspends and receives a SchedulerMessage each time it is resumed.  The  *)
(* engine (run) spawns the threads, polls all of them, advances one        *)
(* runnable thread per iteration and classifies the outcome.               *)
(*                                                                         *)
(* A generator is modelled by its call stack: a sequence of frames         *)
(* [f, a, pc], the innermost frame last, where Code(f, a, t) is the body   *)
(* of function f called with argument a and pc the statement the frame is  *)
(* at.  `yield from g()` pushes a frame; the end of a body pops it.        *)
(*                                                                         *)
(* Three specifications: Spec is one call of run; SpecDriver is simsched,  *)
(* which calls run once per tick of a loop controller and counts the       *)
(* results; SpecReplay is run called twice with the same arguments and     *)
(* shared state.                                                           *)
(***************************************************************************)
EXTENDS Integers, Sequences, FiniteSets, TLC

VARIABLES
    scn,        \* the constructor list handed to run (a named scenario)
    max_steps,  \* run's max_steps argument
    epc,        \* where run is: "spawn", "loop", "poll", "decide", "done"
                \* ("idle": simsched is not inside run)
    threads,    \* run's `threads`: the spawned generators, in order
    sh,         \* the state shared by the threads (flags, mutexes, cell,
                \* channel) and the history of the mutex and channel calls
    it,         \* iterations of run's for loop begun so far
    pi,         \* poll: index of the next thread to poll
    ready,      \* poll: `ready`, thread indices in order
    total,      \* poll: `total`, thread indices in order
    result,     \* what run returned ("none" while running)
    err,        \* the error carried by SimPanic, or that escaped run
    nconts,     \* history: number of CONT messages sent in this run
    last_cont,  \* history: the thread that received the latest CONT (0: none)
    trace,      \* history (replay): for every random.choice of this run, in
                \* order, its argument, the index drawn and the thread chosen
    phase,      \* replay: 0 no replay, 1 first run, 2 second run
    first,      \* replay: the trace, the result and error of the first run
                \* and the shared state it ended in
    dpc,        \* where simsched is: "direct" (run called directly),
                \* "start", "looper", "run", "exit", "returned", "raised"
    looper,     \* the loop controller handed to simsched: [kind, n]
    stats,      \* simsched's RunStats object
    derr,       \* the error on its way out of simsched, or that left it
    nticks,     \* history: ticks the looper produced
    nruns       \* history: engine runs that returned to simsched

\* what a run does not touch
xvars == <<phase, first, dpc, looper, stats, derr, nticks, nruns>>

vars == <<scn, max_steps, epc, threads, sh, it, pi, ready, total, result, err,
          nconts, last_cont, trace, phase, first, dpc, looper, stats, derr,
          nticks, nruns>>

\* ------------------------------------------------------------------ bounds

\* max_steps is drawn from 1..MaxBudget and the default of run
MaxBudget == 6
\* number of threads of the scenarios that take a thread count
NrThreads == 2
\* a thread of scenario "timeout" has 1..MaxK steps
MaxK == 4
\* the producer of scenario "channel_stream" sends the items 1..NrItems
NrItems == 2
\* a loop controller produces at most MaxRuns ticks
MaxRuns == 2

\* run's default for max_steps
DefaultMaxSteps == 1000

\* The protocol alphabet: a thread publishes one of the ThreadState tags
\* "YIELD", "READY", "BLOCK", "FINAL" and receives one of the
\* SchedulerMessage commands "POLL", "CONT".

\* ---------------------------------------------------------------- programs

Ins(op, f, a) == [op |-> op, f |-> f, a |-> a]

YieldFrom(f, a) == Ins("yield_from", f, a)

\* a schedule that waits for a predicate that is never true
schedule_blocks == << Ins("cond_schedule", "False", 0) >>

\* core.schedule: yield from cond_schedule(lambda: True)
schedule == << Ins("cond_schedule", "True", 0) >>

\* a wrapper without the early schedule(): the thread starts in user code
simthread_wrapper_no_start(t) ==
    << YieldFrom(t.f, t.a), Ins("finish", "", 0) >>

\* engine.simthread_wrapper around the constructor t
simthread_wrapper(t) ==
    << YieldFrom("schedule", 0), YieldFrom(t.f, t.a), Ins("finish", "", 0) >>

\* a lock that yields once but does not wait for the mutex to be free
Mutex_lock_no_wait(m) ==
    << Ins("cond_schedule", "True", m), Ins("lock_set", "None", m) >>

\* a lock that takes the mutex at once, locked or not
Mutex_lock_try(m) == << Ins("lock_set", "None", m) >>

\* lib.Mutex.lock of mutex m: wait until unlocked, then take it
Mutex_lock(m) ==
    << Ins("cond_schedule", "not_locked", m), Ins("lock_set", "None", m) >>

\* lib.Mutex.lock(owner=proc) of mutex m: the same with an owner token
Mutex_lock_owner(m) ==
    << Ins("cond_schedule", "not_locked", m), Ins("lock_set", "proc", m) >>

\* lib.Mutex.unlock of mutex m: raise if not locked, clear, then schedule
Mutex_unlock(m) ==
    << Ins("unlock", "", m), YieldFrom("schedule", 0) >>

\* tests/test_core.py test_single_thread
thread_single ==
    << Ins("steps_set", "", 0), YieldFrom("schedule", 0), Ins("steps_set", "", 1) >>

\* tests/test_core.py test_explicit_finish
thread_explicit_finish ==
    << Ins("steps_set", "", 0), Ins("finish", "", 0), Ins("steps_set", "", 1) >>

\* tests/test_core.py test_nested_finish: calls_exit and thread
calls_exit == << Ins("finish", "", 0) >>

thread_nested_finish ==
    << Ins("steps_set", "", 0), YieldFrom("calls_exit", 0), Ins("steps_set", "", 1) >>

\* tests/test_core.py test_multiple_threads: thread(n)
thread_multiple(n) ==
    << YieldFrom("schedule", 0), Ins("steps_set", "", n) >>

\* tests/test_core.py test_simple_deadlock
thread_deadlock ==
    << Ins("steps_set", "", 0), Ins("cond_schedule", "False", 0),
       Ins("steps_set", "", 1) >>

\* tests/test_core.py test_timeout, generalised: k steps, k-1 schedule() calls
thread_timeout(k) == [i \in 1..(k - 1) |-> YieldFrom("schedule", 0)]

\* tests/test_core.py test_loop_detection: while True: yield from schedule()
thread_loop == << YieldFrom("schedule", 0), Ins("goto", "", 1) >>

\* tests/test_core.py test_simple_exception
thread_exception == << YieldFrom("schedule", 0), Ins("raise", "testmsg", 0) >>

\* tests/test_lib.py test_mutex_counter_data_race
thread_counter ==
    << YieldFrom("Mutex.lock", 0), Ins("load", "", 0), YieldFrom("schedule", 0),
       Ins("store", "", 0), YieldFrom("Mutex.unlock", 0) >>

\* a thread whose readiness predicate raises when it is polled
thread_poll_raises ==
    << Ins("steps_set", "", 0), Ins("cond_schedule", "raises", 0),
       Ins("steps_set", "", 1) >>

\* tests/test_lib.py test_mutex_lock_unlock
thread_lock_unlock ==
    << YieldFrom("Mutex.lock", 0), YieldFrom("Mutex.unlock", 0) >>

\* tests/test_lib.py test_mutex_unlock_when_not_locked
thread_unlock_free == << YieldFrom("Mutex.unlock", 0) >>

\* tests/test_lib.py test_mutex_self_deadlock
thread_self_deadlock ==
    << YieldFrom("Mutex.lock", 0), YieldFrom("Mutex.lock", 0) >>

\* tests/test_runner.py test_simsched_abba_deadlock: t0 is thread_abba(0),
\* t1 is thread_abba(1); mutex a is number 0 and mutex b number 1
thread_abba(m) ==
    << YieldFrom("Mutex.lock", m), YieldFrom("Mutex.lock", 1 - m),
       YieldFrom("Mutex.unlock", 1 - m), YieldFrom("Mutex.unlock", m) >>

\* a thread that locks with an owner token, unlocks, and then locks twice
thread_owner_relock ==
    << YieldFrom("Mutex.lock_owner", 0), YieldFrom("Mutex.unlock", 0),
       YieldFrom("Mutex.lock_owner", 0), YieldFrom("Mutex.lock_owner", 0) >>

\* test_single_thread with cond_schedule(lambda: True) written out in place
\* of schedule()
thread_single_cond ==
    << Ins("steps_set", "", 0), Ins("cond_schedule", "True", 0),
       Ins("steps_set", "", 1) >>

\* a thread whose body is just finish()
thread_finish_only == << Ins("finish", "", 0) >>

\* tests/test_lib.py test_mutex_single_unlock: the mutex is created locked
thread_single_unlock == << YieldFrom("Mutex.unlock", 0) >>

\* a thread that takes the mutex with its token and stays in its critical
\* section (flag 0 set, flag 1 not yet) across one schedule()
thread_holder ==
    << YieldFrom("Mutex.lock_owner", 0), Ins("steps_set", "", 0),
       YieldFrom("schedule", 0), Ins("steps_set", "", 1),
       YieldFrom("Mutex.unlock", 0) >>

\* a thread that unlocks the mutex without ever having locked it
thread_thief == << YieldFrom("Mutex.unlock", 0) >>

\* a third thread that locks the mutex and enters its critical section
thread_third == << YieldFrom("Mutex.lock", 0), Ins("steps_set", "", 2) >>

\* lib.TxChannel.send of item x: append, then schedule
TxChannel_send(x) ==
    << Ins("buf_append", "", x), YieldFrom("schedule", 0) >>

\* a peek that yields once but does not wait for an item
RxChannel_peek_no_wait ==
    << Ins("cond_schedule", "True", 0), Ins("peek_copy", "", 0) >>

\* lib.RxChannel.peek: wait for an item, copy the head into ret
RxChannel_peek ==
    << Ins("cond_schedule", "buf_nonempty", 0), Ins("peek_copy", "", 0) >>

\* lib.RxChannel.recv: peek, then consume (a plain call: popleft)
RxChannel_recv ==
    << YieldFrom("RxChannel.peek", 0), Ins("consume", "", 0) >>

\* tests/test_lib.py test_channel_multisend
thread_multisend ==
    << YieldFrom("TxChannel.send", 100), YieldFrom("TxChannel.send", 200) >>

\* tests/test_lib.py test_channel_both: the message "hello" is item 1,
\* the receiver's Cell starts as 0
thread_sender == << YieldFrom("TxChannel.send", 1) >>

thread_receiver ==
    << YieldFrom("RxChannel.recv", 0), Ins("assert_ret", "", 1) >>

\* tests/test_lib.py test_channel_recv_blocks
thread_recv_blocks ==
    << Ins("steps_set", "", 0), YieldFrom("RxChannel.recv", 0),
       Ins("steps_set", "", 1) >>

\* a producer of the items 1..n, in order
thread_producer(n) == [x \in 1..n |-> YieldFrom("TxChannel.send", x)]

\* a consumer as in examples/tso.py: peek, work, consume; then a recv
thread_consumer ==
    << YieldFrom("RxChannel.peek", 0), Ins("assert_ret", "", 1),
       YieldFrom("schedule", 0), Ins("consume", "", 0),
       YieldFrom("RxChannel.recv", 0), Ins("assert_ret", "", 2) >>

\* ------------------------------------------------- examples/x86tso.py

\* the processors of a TSO(nr_threads=4); a TSO(nr_threads=2) has 0 and 1
Procs == 0..3

\* the memory cells the demos name: Addr("x"), Addr("y")
Addrs == {"x", "y"}

\* the token lock(owner=self) stores for processor p
ProcOwner(p) == << "P0", "P1", "P2", "P3" >>[p + 1]

\* what a store buffer holds: a pending store (addr, val), or the None that
\* Processor.wrap sends when the program is over
StoreItem(addr, val) == [addr |-> addr, val |-> val]

NoneItem == [addr |-> "None", val |-> 0]

\* Processor.mov(Addr, int) of processor p: self.tx.send((addr, val)), that
\* is append to the own store buffer, then schedule()
Processor_mov_store(p, addr, val) ==
    << Ins("tx_append", addr, << p, val >>), YieldFrom("schedule", 0) >>

\* Processor.mov(Reg, Addr) of processor p: wait until the memory is not
\* locked, then self.regs[reg] = self._lookup(addr)
Processor_mov_load(p, reg, addr) ==
    << Ins("cond_schedule", "not_locked", 0),
       Ins("reg_load", reg, << p, addr >>) >>

\* a wrap that does not close the store buffer
Processor_wrap_no_close(p, t) == t

\* Processor.wrap of processor p around program t: the program, then
\* self.tx.send(None)
Processor_wrap(p, t) ==
    t \o << Ins("tx_append", "None", << p, 0 >>), YieldFrom("schedule", 0) >>

\* a store-buffer thread that writes to memory whoever holds the memory lock
TSO_storebuffer_ignores_lock(p) ==
    << Ins("cond_schedule", "tx_nonempty", p),
       Ins("sb_peek_copy", "", p),
       Ins("match_none", "", << p, 8 >>),
       Ins("cond_schedule", "True", 0),
       Ins("mem_write", "", p),
       Ins("sb_consume", "", p),
       Ins("goto", "", 1),
       Ins("sb_consume", "", p) >>

\* TSO.storebuffer of processor p: peek; a store waits for the memory lock,
\* is written to memory and consumed; None is consumed and ends the thread
TSO_storebuffer(p) ==
    << Ins("cond_schedule", "tx_nonempty", p),
       Ins("sb_peek_copy", "", p),
       Ins("match_none", "", << p, 8 >>),
       Ins("cond_schedule", "unlocked_or_owner", p),
       Ins("mem_write", "", p),
       Ins("sb_consume", "", p),
       Ins("goto", "", 1),
       Ins("sb_consume", "", p) >>

\* SbDemo.configure: t0 and t1
SbDemo_t0(p) ==
    Processor_mov_store(p, "x", 1) \o Processor_mov_load(p, "eax", "y")

SbDemo_t1(p) ==
    Processor_mov_store(p, "y", 1) \o Processor_mov_load(p, "ebx", "x")

\* IriwDemo.configure: t0, t1, t2 and t3
IriwDemo_t0(p) == Processor_mov_store(p, "x", 1)

IriwDemo_t1(p) == Processor_mov_store(p, "y", 1)

IriwDemo_t2(p) ==
    Processor_mov_load(p, "eax", "x") \o Processor_mov_load(p, "ebx", "y")

IriwDemo_t3(p) ==
    Processor_mov_load(p, "ecx", "y") \o Processor_mov_load(p, "edx", "x")

\* Processor._memlock of processor p: self.lock.lock(owner=self)
Processor_memlock(p) ==
    << Ins("cond_schedule", "not_locked", 0),
       Ins("lock_set", ProcOwner(p), 0) >>

\* an mfence that yields once and does not wait for the store buffer
Processor_mfence_no_wait(p) == << Ins("cond_schedule", "True", 0) >>

\* Processor.mfence of processor p: wait until the own store buffer is empty
Processor_mfence(p) == << Ins("cond_schedule", "tx_empty", p) >>

\* Processor._memunlock of processor p: mfence, then self.lock.unlock()
Processor_memunlock(p) ==
    Processor_mfence(p) \o << YieldFrom("Mutex.unlock", 0) >>

\* Processor.xchg(Addr, Reg) of processor p: lock the memory, read both
\* values, set the register, send the store, unlock the memory
Processor_xchg(p, addr, reg) ==
    Processor_memlock(p)
        \o << Ins("xchg_swap", reg, << p, addr >>), YieldFrom("schedule", 0) >>
        \o Processor_memunlock(p)

\* p.regs[Reg(reg)] = val, as the demos initialize a register
Processor_reg_init(p, reg, val) == << Ins("reg_set", reg, << p, val >>) >>

\* Ex_8_4_Demo.configure: t0
Ex_8_4_Demo_t0(p) ==
    Processor_mov_store(p, "x", 1) \o Processor_mov_load(p, "eax", "x")

\* Amd5Demo.configure: t0 and t1
Amd5Demo_t0(p) ==
    Processor_mov_store(p, "x", 1) \o Processor_mfence(p)
        \o Processor_mov_load(p, "eax", "y")

Amd5Demo_t1(p) ==
    Processor_mov_store(p, "y", 1) \o Processor_mfence(p)
        \o Processor_mov_load(p, "ebx", "x")

\* Ex_8_9_Demo.configure: t0 and t1
Ex_8_9_Demo_t0(p) ==
    Processor_reg_init(p, "eax", 1) \o Processor_xchg(p, "x", "eax")
        \o Processor_mov_load(p, "ebx", "y")

Ex_8_9_Demo_t1(p) ==
    Processor_reg_init(p, "ecx", 1) \o Processor_xchg(p, "y", "ecx")
        \o Processor_mov_load(p, "edx", "x")

\* a program of one locked instruction, and beside it a program with a
\* store that can be pending, and a load that can be due, while the memory
\* is locked
LockedDemo_t0(p) ==
    Processor_reg_init(p, "eax", 1) \o Processor_xchg(p, "x", "eax")

LockedDemo_t1(p) ==
    Processor_mov_store(p, "y", 1) \o Processor_mov_load(p, "ebx", "x")

\* a program with two stores to one address pending before its load
StoreTwiceDemo_t0(p) ==
    Processor_mov_store(p, "x", 1) \o Processor_mov_store(p, "x", 2)
        \o Processor_mov_load(p, "eax", "x")

\* the body of function f called with argument a, inside a thread built from t
Code(f, a, t) ==
    CASE f = "simthread_wrapper" -> simthread_wrapper(t)
      [] f = "schedule" -> schedule
      [] f = "Mutex.lock" -> Mutex_lock(a)
      [] f = "Mutex.unlock" -> Mutex_unlock(a)
      [] f = "thread_single" -> thread_single
      [] f = "thread_explicit_finish" -> thread_explicit_finish
      [] f = "calls_exit" -> calls_exit
      [] f = "thread_nested_finish" -> thread_nested_finish
      [] f = "thread_multiple" -> thread_multiple(a)
      [] f = "thread_deadlock" -> thread_deadlock
      [] f = "thread_timeout" -> thread_timeout(a)
      [] f = "thread_loop" -> thread_loop
      [] f = "thread_exception" -> thread_exception
      [] f = "thread_counter" -> thread_counter
      [] f = "thread_poll_raises" -> thread_poll_raises
      [] f = "thread_lock_unlock" -> thread_lock_unlock
      [] f = "thread_unlock_free" -> thread_unlock_free
      [] f = "thread_self_deadlock" -> thread_self_deadlock
      [] f = "thread_abba" -> thread_abba(a)
      [] f = "Mutex.lock_owner" -> Mutex_lock_owner(a)
      [] f = "thread_owner_relock" -> thread_owner_relock
      [] f = "thread_finish_only" -> thread_finish_only
      [] f = "thread_single_cond" -> thread_single_cond
      [] f = "TxChannel.send" -> TxChannel_send(a)
      [] f = "RxChannel.peek" -> RxChannel_peek
      [] f = "RxChannel.recv" -> RxChannel_recv
      [] f = "thread_multisend" -> thread_multisend
      [] f = "thread_sender" -> thread_sender
      [] f = "thread_receiver" -> thread_receiver
      [] f = "thread_recv_blocks" -> thread_recv_blocks
      [] f = "thread_producer" -> thread_producer(a)
      [] f = "thread_consumer" -> thread_consumer
      [] f = "thread_single_unlock" -> thread_single_unlock
      [] f = "thread_holder" -> thread_holder
      [] f = "thread_thief" -> thread_thief
      [] f = "thread_third" -> thread_third
      [] f = "SbDemo.t0" -> Processor_wrap(a, SbDemo_t0(a))
      [] f = "SbDemo.t1" -> Processor_wrap(a, SbDemo_t1(a))
      [] f = "IriwDemo.t0" -> Processor_wrap(a, IriwDemo_t0(a))
      [] f = "IriwDemo.t1" -> Processor_wrap(a, IriwDemo_t1(a))
      [] f = "IriwDemo.t2" -> Processor_wrap(a, IriwDemo_t2(a))
      [] f = "IriwDemo.t3" -> Processor_wrap(a, IriwDemo_t3(a))
      [] f = "TSO.storebuffer" -> TSO_storebuffer(a)
      [] f = "Ex_8_4_Demo.t0" -> Processor_wrap(a, Ex_8_4_Demo_t0(a))
      [] f = "Amd5Demo.t0" -> Processor_wrap(a, Amd5Demo_t0(a))
      [] f = "Amd5Demo.t1" -> Processor_wrap(a, Amd5Demo_t1(a))
      [] f = "Ex_8_9_Demo.t0" -> Processor_wrap(a, Ex_8_9_Demo_t0(a))
      [] f = "Ex_8_9_Demo.t1" -> Processor_wrap(a, Ex_8_9_Demo_t1(a))
      [] f = "LockedDemo.t0" -> Processor_wrap(a, LockedDemo_t0(a))
      [] f = "LockedDemo.t1" -> Processor_wrap(a, LockedDemo_t1(a))
      [] f = "StoreTwiceDemo.t0" -> Processor_wrap(a, StoreTwiceDemo_t0(a))

Ctor(f, a) == [f |-> f, a |-> a]

\* ---------------------------------------------------------------- scenarios

ScenarioNames ==
    {"empty", "single", "explicit_finish", "nested_finish", "multiple",
     "deadlock", "timeout", "loop", "exception", "exception_pair", "counter",
     "poll_raises", "finish_pair", "deadlock_pair", "lock_unlock",
     "unlock_free", "self_deadlock", "abba", "channel_multisend",
     "channel_both", "channel_recv_blocks", "channel_stream",
     "owner_relock", "timeout_finish", "multiple_finish", "single_cond"}

\* a scenario is a name and, for "timeout" and "timeout_finish", the
\* thread's number of steps k
Scenarios ==
    [name : ScenarioNames \ {"timeout", "timeout_finish"}, k : {0}]
        \cup [name : {"timeout", "timeout_finish"}, k : 1..MaxK]

\* the constructor list of scenario s with parameter k
Constructors(s, k) ==
    CASE s = "empty" -> << >>
      [] s = "single" -> << Ctor("thread_single", 0) >>
      [] s = "explicit_finish" -> << Ctor("thread_explicit_finish", 0) >>
      [] s = "nested_finish" -> << Ctor("thread_nested_finish", 0) >>
      [] s = "multiple" ->
            [i \in 1..(NrThreads + 1) |-> Ctor("thread_multiple", i - 1)]
      [] s = "deadlock" -> << Ctor("thread_deadlock", 0) >>
      [] s = "timeout" -> << Ctor("thread_timeout", k) >>
      [] s = "loop" -> << Ctor("thread_loop", 0) >>
      [] s = "exception" -> << Ctor("thread_exception", 0) >>
      [] s = "exception_pair" ->
            << Ctor("thread_exception", 0), Ctor("thread_single", 0) >>
      [] s = "counter" -> [i \in 1..NrThreads |-> Ctor("thread_counter", 0)]
      [] s = "poll_raises" ->
            << Ctor("thread_single", 0), Ctor("thread_poll_raises", 0) >>
      [] s = "finish_pair" ->
            << Ctor("thread_nested_finish", 0), Ctor("thread_timeout", 2) >>
      [] s = "deadlock_pair" ->
            << Ctor("thread_timeout", 2), Ctor("thread_deadlock", 0) >>
      [] s = "lock_unlock" -> << Ctor("thread_lock_unlock", 0) >>
      [] s = "unlock_free" -> << Ctor("thread_unlock_free", 0) >>
      [] s = "self_deadlock" -> << Ctor("thread_self_deadlock", 0) >>
      [] s = "abba" -> << Ctor("thread_abba", 0), Ctor("thread_abba", 1) >>
      [] s = "owner_relock" -> << Ctor("thread_owner_relock", 0) >>
      [] s = "single_cond" -> << Ctor("thread_single_cond", 0) >>
      [] s = "timeout_finish" ->
            << Ctor("thread_timeout", k), Ctor("thread_finish_only", 0) >>
      [] s = "multiple_finish" ->
            [i \in 1..(NrThreads + 2) |->
                IF i <= NrThreads + 1 THEN Ctor("thread_multiple", i - 1)
                ELSE Ctor("thread_finish_only", 0)]
      [] s = "channel_multisend" -> << Ctor("thread_multisend", 0) >>
      [] s = "channel_both" ->
            << Ctor("thread_sender", 0), Ctor("thread_receiver", 0) >>
      [] s = "channel_recv_blocks" -> << Ctor("thread_recv_blocks", 0) >>
      [] s = "channel_stream" ->
            << Ctor("thread_producer", NrItems), Ctor("thread_consumer", 0) >>
      [] s = "single_unlock" -> << Ctor("thread_single_unlock", 0) >>
      [] s = "unlock_steal" ->
            << Ctor("thread_holder", 0), Ctor("thread_thief", 0),
               Ctor("thread_third", 0) >>
      [] s = "sb" ->
            << Ctor("SbDemo.t0", 0), Ctor("SbDemo.t1", 1),
               Ctor("TSO.storebuffer", 0), Ctor("TSO.storebuffer", 1) >>
      [] s = "iriw" ->
            << Ctor("IriwDemo.t0", 0), Ctor("IriwDemo.t1", 1),
               Ctor("IriwDemo.t2", 2), Ctor("IriwDemo.t3", 3),
               Ctor("TSO.storebuffer", 0), Ctor("TSO.storebuffer", 1),
               Ctor("TSO.storebuffer", 2), Ctor("TSO.storebuffer", 3) >>
      [] s = "ex_8_4" ->
            << Ctor("Ex_8_4_Demo.t0", 0), Ctor("TSO.storebuffer", 0) >>
      [] s = "amd5" ->
            << Ctor("Amd5Demo.t0", 0), Ctor("Amd5Demo.t1", 1),
               Ctor("TSO.storebuffer", 0), Ctor("TSO.storebuffer", 1) >>
      [] s = "ex_8_9" ->
            << Ctor("Ex_8_9_Demo.t0", 0), Ctor("Ex_8_9_Demo.t1", 1),
               Ctor("TSO.storebuffer", 0), Ctor("TSO.storebuffer", 1) >>
      [] s = "locked" ->
            << Ctor("LockedDemo.t0", 0), Ctor("LockedDemo.t1", 1),
               Ctor("TSO.storebuffer", 0), Ctor("TSO.storebuffer", 1) >>
      [] s = "store_twice" ->
            << Ctor("StoreTwiceDemo.t0", 0), Ctor("TSO.storebuffer", 0) >>

\* the mutexes of the scenarios: 0, and 1 for mutex b of "abba"
Mutexes == {0, 1}

\* the shared objects the tests create before run: flags, mutexes, a Cell and
\* a channel; locks, unlocks, prior, sent and consumed are history (prior:
\* the flag and owner of a mutex when its latest lock() took it); and the
\* objects of a TSO: the memory (a defaultdict(int)), and for each processor
\* its store buffer, the Cell of its store-buffer thread and its registers
\* (a dict, empty at first); the memory lock of a TSO is mutex 0
InitShared ==
    [steps |-> [i \in 0..NrThreads |-> FALSE],
     locked |-> [m \in Mutexes |-> FALSE],
     owner |-> [m \in Mutexes |-> "None"],
     cell |-> 0,
     buf |-> << >>,
     locks |-> [m \in Mutexes |-> 0],
     unlocks |-> [m \in Mutexes |-> 0],
     prior |-> [m \in Mutexes |-> [locked |-> FALSE, owner |-> "None"]],
     sent |-> << >>,
     consumed |-> 0,
     mem |-> [a \in Addrs |-> 0],
     sb |-> [p \in Procs |-> << >>],
     sbcell |-> [p \in Procs |-> NoneItem],
     regs |-> [p \in Procs |-> << >>]]

\* ------------------------------------------------------------------ threads

\* a freshly created generator of simthread_wrapper(t): not started
NewThread(t) ==
    [t |-> t,
     stack |-> << [f |-> "simthread_wrapper", a |-> 0, pc |-> 1] >>,
     st |-> "new",
     val |-> 0,
     ret |-> 0,
     exc |-> ""]

Top(thr) == thr.stack[Len(thr.stack)]

TopCode(thr) == Code(Top(thr).f, Top(thr).a, thr.t)

\* the statement the innermost frame is at
CurIns(thr) == TopCode(thr)[Top(thr).pc]

SetPc(thr, pc) ==
    [thr EXCEPT !.stack[Len(thr.stack)].pc = pc]

Push(thr, f, a) ==
    [thr EXCEPT !.stack = Append(thr.stack, [f |-> f, a |-> a, pc |-> 1])]

\* the innermost generator returns: its caller goes on after its `yield from`
Pop(thr) ==
    LET s == SubSeq(thr.stack, 1, Len(thr.stack) - 1)
    IN  [thr EXCEPT !.stack =
            IF s = << >> THEN s
            ELSE [s EXCEPT ![Len(s)].pc = s[Len(s)].pc + 1]]

\* an unlock without the check that the mutex is locked
Mutex_unlock_stmts_unchecked(m, s) ==
    [sh |-> [s EXCEPT !.locked[m] = FALSE, !.owner[m] = "None"], exc |-> ""]

\* an unlock that leaves the owner in place
Mutex_unlock_stmts_keeps_owner(m, s) ==
    IF ~s.locked[m]
    THEN [sh |-> s, exc |-> "trying to unlock non-locked mutex"]
    ELSE [sh |-> [s EXCEPT !.locked[m] = FALSE], exc |-> ""]

\* an unlock that refuses a mutex that was locked with an owner token
Mutex_unlock_stmts_owner_checked(m, s) ==
    IF ~s.locked[m]
    THEN [sh |-> s, exc |-> "trying to unlock non-locked mutex"]
    ELSE IF s.owner[m] # "None"
    THEN [sh |-> s, exc |-> "trying to unlock a mutex of another owner"]
    ELSE [sh |-> [s EXCEPT !.locked[m] = FALSE, !.owner[m] = "None"],
          exc |-> ""]

\* Mutex.unlock up to its schedule(): [sh, exc]
Mutex_unlock_stmts(m, s) ==
    IF ~s.locked[m]
    THEN [sh |-> s, exc |-> "trying to unlock non-locked mutex"]
    ELSE [sh |-> [s EXCEPT !.locked[m] = FALSE, !.owner[m] = "None"],
          exc |-> ""]

\* a lock that records the owner but leaves the mutex unlocked
Mutex_lock_stmts_owner_only(m, owner, s) ==
    [s EXCEPT !.owner[m] = owner]

\* Mutex.lock after its cond_schedule: self.locked = True; self.owner = owner
Mutex_lock_stmts(m, owner, s) ==
    [s EXCEPT !.locked[m] = TRUE, !.owner[m] = owner]

\* RxChannel.peek after its cond_schedule: ret.val = self.buf[0]
RxChannel_peek_copy(buf) ==
    IF buf = << >>
    THEN [val |-> 0, exc |-> "deque index out of range"]
    ELSE [val |-> Head(buf), exc |-> ""]

\* a consume that removes the newest item
RxChannel_consume_newest(buf) ==
    IF buf = << >>
    THEN [buf |-> buf, exc |-> "pop from an empty deque"]
    ELSE [buf |-> SubSeq(buf, 1, Len(buf) - 1), exc |-> ""]

\* RxChannel.consume: self.buf.popleft()
RxChannel_consume(buf) ==
    IF buf = << >>
    THEN [buf |-> buf, exc |-> "pop from an empty deque"]
    ELSE [buf |-> Tail(buf), exc |-> ""]

\* a lookup that reads memory and never the store buffer
Processor_lookup_memory_only(p, addr, s) == s.mem[addr]

\* a lookup that also sees the pending stores of the processor two places
\* away, as if the two shared one store buffer
Processor_lookup_shared_buffer(p, addr, s) ==
    LET buf == s.sb[p] \o s.sb[(p + 2) % 4]
        hits == {j \in 1..Len(buf) : buf[j].addr = addr}
    IN  IF hits = {} THEN s.mem[addr]
        ELSE buf[CHOOSE j \in hits : \A k \in hits : k <= j].val

\* Processor._lookup of processor p: the newest store to addr pending in the
\* own store buffer, else the memory
Processor_lookup(p, addr, s) ==
    LET buf == s.sb[p]
        hits == {j \in 1..Len(buf) : buf[j].addr = addr}
    IN  IF hits = {} THEN s.mem[addr]
        ELSE buf[CHOOSE j \in hits : \A k \in hits : k <= j].val

\* self.regs[reg] = val on the dict regs
SetReg(regs, reg, val) ==
    [r \in (DOMAIN regs) \cup {reg} |-> IF r = reg THEN val ELSE regs[r]]

\* one statement that does not suspend: [thr, sh, exc] (exc = "": no error)
Exec(i, thr, s) ==
    CASE i.op = "steps_set" ->
            [thr |-> thr, sh |-> [s EXCEPT !.steps[i.a] = TRUE], exc |-> ""]
      [] i.op = "raise" -> [thr |-> thr, sh |-> s, exc |-> i.f]
      [] i.op = "lock_set" ->
            [thr |-> thr,
             sh |-> [Mutex_lock_stmts(i.a, i.f, s) EXCEPT
                        !.locks[i.a] = @ + 1,
                        !.prior[i.a] = [locked |-> s.locked[i.a],
                                        owner |-> s.owner[i.a]]],
             exc |-> ""]
      [] i.op = "unlock" ->
            LET r == Mutex_unlock_stmts(i.a, s)
            IN  [thr |-> thr,
                 sh |-> IF r.exc = ""
                        THEN [r.sh EXCEPT !.unlocks[i.a] = @ + 1]
                        ELSE r.sh,
                 exc |-> r.exc]
      [] i.op = "buf_append" ->
            [thr |-> thr,
             sh |-> [s EXCEPT !.buf = Append(@, i.a),
                              !.sent = Append(@, i.a)],
             exc |-> ""]
      [] i.op = "peek_copy" ->
            LET r == RxChannel_peek_copy(s.buf)
            IN  [thr |-> IF r.exc = "" THEN [thr EXCEPT !.ret = r.val] ELSE thr,
                 sh |-> s, exc |-> r.exc]
      [] i.op = "consume" ->
            LET r == RxChannel_consume(s.buf)
            IN  [thr |-> thr,
                 sh |-> IF r.exc = ""
                        THEN [s EXCEPT !.buf = r.buf, !.consumed = @ + 1]
                        ELSE s,
                 exc |-> r.exc]
      [] i.op = "assert_ret" ->
            [thr |-> thr, sh |-> s,
             exc |-> IF thr.ret = i.a THEN "" ELSE "AssertionError"]
      [] i.op = "load" ->
            [thr |-> [thr EXCEPT !.val = s.cell], sh |-> s, exc |-> ""]
      [] i.op = "store" ->
            [thr |-> thr, sh |-> [s EXCEPT !.cell = thr.val + 1], exc |-> ""]
      [] i.op = "tx_append" ->
            [thr |-> thr,
             sh |-> [s EXCEPT !.sb[i.a[1]] =
                        Append(@, IF i.f = "None" THEN NoneItem
                                  ELSE StoreItem(i.f, i.a[2]))],
             exc |-> ""]
      [] i.op = "reg_load" ->
            [thr |-> thr,
             sh |-> [s EXCEPT !.regs[i.a[1]] =
                        SetReg(@, i.f, Processor_lookup(i.a[1], i.a[2], s))],
             exc |-> ""]
      [] i.op = "reg_set" ->
            [thr |-> thr,
             sh |-> [s EXCEPT !.regs[i.a[1]] = SetReg(@, i.f, i.a[2])],
             exc |-> ""]
      [] i.op = "xchg_swap" ->
            \* aval = self._lookup(a); rval = self.regs[r];
            \* self.regs[r] = aval; the append of self.tx.send((a, rval))
            IF i.f \notin DOMAIN s.regs[i.a[1]]
            THEN [thr |-> thr, sh |-> s, exc |-> "KeyError"]
            ELSE [thr |-> thr,
                  sh |-> [s EXCEPT
                            !.regs[i.a[1]] =
                                SetReg(@, i.f,
                                       Processor_lookup(i.a[1], i.a[2], s)),
                            !.sb[i.a[1]] =
                                Append(@, StoreItem(i.a[2],
                                                    s.regs[i.a[1]][i.f]))],
                  exc |-> ""]
      [] i.op = "sb_peek_copy" ->
            LET r == RxChannel_peek_copy(s.sb[i.a])
            IN  [thr |-> thr,
                 sh |-> IF r.exc = "" THEN [s EXCEPT !.sbcell[i.a] = r.val]
                        ELSE s,
                 exc |-> r.exc]
      [] i.op = "mem_write" ->
            [thr |-> thr,
             sh |-> [s EXCEPT !.mem[s.sbcell[i.a].addr] = s.sbcell[i.a].val],
             exc |-> ""]
      [] i.op = "sb_consume" ->
            LET r == RxChannel_consume(s.sb[i.a])
            IN  [thr |-> thr,
                 sh |-> IF r.exc = "" THEN [s EXCEPT !.sb[i.a] = r.buf] ELSE s,
                 exc |-> r.exc]

\* Run the generator from where it is to its next suspension:
\* [thr, sh, out, e] with out = "yield" (suspended, thr.st published),
\* "raise" (error e left the generator) or "stop" (the generator returned).
RECURSIVE Advance(_, _)
Advance(thr, s) ==
    IF thr.stack = << >>
    THEN [thr |-> thr, sh |-> s, out |-> "stop", e |-> "StopIteration"]
    ELSE IF Top(thr).pc > Len(TopCode(thr))
    THEN Advance(Pop(thr), s)
    ELSE LET i == CurIns(thr)
         IN  CASE i.op = "yield_from" -> Advance(Push(thr, i.f, i.a), s)
               [] i.op \in {"cond_schedule", "finish"} ->
                    \* both start with `cmd = yield ThreadState.YIELD`
                    [thr |-> [thr EXCEPT !.st = "YIELD"], sh |-> s,
                     out |-> "yield", e |-> ""]
               [] i.op = "goto" -> Advance(SetPc(thr, i.a), s)
               [] i.op = "match_none" ->
                    \* match cell.val: case None goes to statement i.a[2]
                    Advance(SetPc(thr, IF s.sbcell[i.a[1]] = NoneItem
                                       THEN i.a[2] ELSE Top(thr).pc + 1), s)
               [] OTHER ->
                    LET r == Exec(i, thr, s)
                    IN  IF r.exc # ""
                        THEN [thr |-> [r.thr EXCEPT !.stack = << >>,
                                              !.exc = r.exc],
                              sh |-> r.sh, out |-> "raise", e |-> r.exc]
                        ELSE Advance(SetPc(r.thr, Top(thr).pc + 1), r.sh)

\* whether evaluating predicate p raises an error
raises(p) == p = "raises"

\* predicates under which a locked mutex does not hold anyone back
is_runnable_ignores_lock(p, a, s) ==
    CASE p = "True" -> TRUE
      [] p = "False" -> FALSE
      [] p = "not_locked" -> TRUE
      [] p = "buf_nonempty" -> s.buf # << >>
      [] OTHER -> FALSE

\* the value of the predicates handed to cond_schedule, in shared state s
is_runnable(p, a, s) ==
    CASE p = "True" -> TRUE
      [] p = "False" -> FALSE
      [] p = "not_locked" -> ~s.locked[a]
      [] p = "buf_nonempty" -> s.buf # << >>
      [] p = "tx_nonempty" -> s.sb[a] # << >>
      [] p = "tx_empty" -> s.sb[a] = << >>
      [] p = "unlocked_or_owner" -> ~s.locked[0] \/ s.owner[0] = ProcOwner(a)
      [] OTHER -> FALSE

\* a cond_schedule that evaluates its predicate at the first POLL only
cond_schedule_memoized(thr, cmd, s) ==
    IF cmd = "POLL"
    THEN IF thr.st \in {"READY", "BLOCK"}
         THEN [thr |-> thr, sh |-> s, out |-> "yield", e |-> ""]
         ELSE [thr |-> [thr EXCEPT !.st =
                            IF is_runnable(CurIns(thr).f, CurIns(thr).a, s)
                            THEN "READY" ELSE "BLOCK"],
               sh |-> s, out |-> "yield", e |-> ""]
    ELSE Advance(SetPc(thr, Top(thr).pc + 1), s)

\* a cond_schedule that returns to its caller on any command
cond_schedule_poll_returns(thr, cmd, s) ==
    Advance(SetPc(thr, Top(thr).pc + 1), s)

\* a cond_schedule that answers every POLL with READY
cond_schedule_always_ready(thr, cmd, s) ==
    IF cmd = "POLL"
    THEN [thr |-> [thr EXCEPT !.st = "READY"], sh |-> s, out |-> "yield",
          e |-> ""]
    ELSE Advance(SetPc(thr, Top(thr).pc + 1), s)

\* a cond_schedule that answers CONT as it answers POLL, without returning
cond_schedule_cont_polls(thr, cmd, s) ==
    [thr |-> [thr EXCEPT !.st =
                 IF is_runnable(CurIns(thr).f, CurIns(thr).a, s)
                 THEN "READY" ELSE "BLOCK"],
     sh |-> s, out |-> "yield", e |-> ""]

\* core.cond_schedule resumed with cmd while suspended at one of its yields
cond_schedule(thr, cmd, s) ==
    LET i == CurIns(thr)
    IN  IF cmd = "POLL"
        THEN IF raises(i.f)
             THEN [thr |-> [thr EXCEPT !.stack = << >>,
                                       !.exc = "predicate error"],
                   sh |-> s, out |-> "raise", e |-> "predicate error"]
             ELSE IF is_runnable(i.f, i.a, s)
             THEN [thr |-> [thr EXCEPT !.st = "READY"], sh |-> s,
                   out |-> "yield", e |-> ""]
             ELSE [thr |-> [thr EXCEPT !.st = "BLOCK"], sh |-> s,
                   out |-> "yield", e |-> ""]
        ELSE \* CONT: break, cond_schedule returns to its caller
             Advance(SetPc(thr, Top(thr).pc + 1), s)

\* core.finish resumed with cmd: FINAL from then on, whatever the command
finish(thr, cmd, s) ==
    [thr |-> [thr EXCEPT !.st = "FINAL"], sh |-> s, out |-> "yield", e |-> ""]

\* generator.send(cmd) on a suspended thread
Send(thr, cmd, s) ==
    IF CurIns(thr).op = "finish"
    THEN finish(thr, cmd, s)
    ELSE cond_schedule(thr, cmd, s)

\* the statements that begin by entering a Python function or calling a
\* constructor (`yield from f()`, self.consume(), self._lookup(a),
\* Reg("eax"), Exception("testmsg")): the interpreter handles a pending
\* signal there, before the statement has written anything
SignalBefore(i) ==
    i.op \in {"yield_from", "cond_schedule", "finish", "raise", "consume",
              "sb_consume", "tx_append", "reg_load", "reg_set", "xchg_swap"}

\* the statements that end with the return of a built-in method
\* (deque.append, deque.popleft): the interpreter handles a pending signal
\* there, after the statement has written
SignalAfter(i) ==
    i.op \in {"buf_append", "consume", "sb_consume", "tx_append", "xchg_swap"}

\* Processor.xchg between self.regs[r] = aval and the append of
\* self.tx.send((a, rval)): the entry of TxChannel.send
SignalInside(i, s) ==
    IF i.op = "xchg_swap" /\ i.f \in DOMAIN s.regs[i.a[1]]
    THEN {[s EXCEPT !.regs[i.a[1]] =
              SetReg(@, i.f, Processor_lookup(i.a[1], i.a[2], s))]}
    ELSE {}

\* The shared states in which the interpreter handles a pending signal
\* inside the generator while it runs from where it is to its next
\* suspension: at the entry of every function it enters, after every
\* built-in call and at every backward jump.
RECURSIVE Checkpoints(_, _)
Checkpoints(thr, s) ==
    IF thr.stack = << >>
    THEN {}
    ELSE IF Top(thr).pc > Len(TopCode(thr))
    THEN Checkpoints(Pop(thr), s)
    ELSE LET i == CurIns(thr)
             before == IF SignalBefore(i) THEN {s} ELSE {}
         IN  CASE i.op = "yield_from" ->
                     before \cup Checkpoints(Push(thr, i.f, i.a), s)
               [] i.op \in {"cond_schedule", "finish"} -> before
               [] i.op = "goto" ->
                     (IF i.a <= Top(thr).pc THEN {s} ELSE {})
                         \cup Checkpoints(SetPc(thr, i.a), s)
               [] i.op = "match_none" ->
                     Checkpoints(SetPc(thr, IF s.sbcell[i.a[1]] = NoneItem
                                            THEN i.a[2] ELSE Top(thr).pc + 1),
                                 s)
               [] OTHER ->
                     LET r == Exec(i, thr, s)
                     IN  IF r.exc # ""
                         THEN before
                         ELSE before \cup SignalInside(i, s)
                                  \cup (IF SignalAfter(i) THEN {r.sh} ELSE {})
                                  \cup Checkpoints(SetPc(r.thr, Top(thr).pc + 1),
                                                   r.sh)

\* a generator in which KeyboardInterrupt was raised: nothing in the
\* threads catches it, so it leaves the generator, which is finished
Killed(thr) ==
    [thr EXCEPT !.stack = << >>, !.exc = "KeyboardInterrupt"]

\* thrd.send(CONT) of run on a thread suspended in cond_schedule, left by a
\* KeyboardInterrupt: [thr, sh], the thread and the shared objects after
\* it.  Handled inside the generator (first where it is resumed) the signal
\* finishes the generator and the shared objects keep what the step has
\* written so far; handled at SimPanic(e), after the step left the
\* generator with an error of its own, it finds the thread finished by
\* that error.
SendInterrupted(thr, s) ==
    {[thr |-> Killed(thr), sh |-> c] :
        c \in {s} \cup Checkpoints(SetPc(thr, Top(thr).pc + 1), s)}
    \cup LET r == Send(thr, "CONT", s)
         IN  IF r.out # "yield" THEN {[thr |-> r.thr, sh |-> r.sh]} ELSE {}

\* ------------------------------------------------------------------- engine

\* engine.spawn_coroutines: create the wrappers and start each with next();
\* [threads, sh, ok] where ok is the assertion that each stops with YIELD
RECURSIVE spawn_coroutines(_, _, _)
spawn_coroutines(ts, done, s) ==
    IF ts = << >>
    THEN [threads |-> done, sh |-> s, ok |-> TRUE]
    ELSE LET r == Advance(NewThread(Head(ts)), s)
         IN  IF r.out = "yield" /\ r.thr.st = "YIELD"
             THEN spawn_coroutines(Tail(ts), Append(done, r.thr), r.sh)
             ELSE [threads |-> Append(done, r.thr), sh |-> r.sh, ok |-> FALSE]

\* a loop with two iterations of margin for each thread
run_range_double_margin(ms, n) == ms + 2 * n

\* a loop with one iteration of margin, however many threads there are
run_range_fixed_margin(ms, n) == ms + 1

\* a loop that forgets the start-up iteration of each thread
run_range_no_margin(ms, n) == ms

\* a loop that gives every thread the whole budget
run_range_budget_per_thread(ms, n) == ms * n

\* run: the number of iterations of the for loop
run_range(ms, n) == ms + n

\* a run that reports Deadlock whenever nothing is runnable
run_no_runnables_always_deadlock(available) == "Deadlock"

\* a run that reports Ok whenever nothing is runnable
run_no_runnables_always_ok(available) == "Ok"

\* run: the result when poll found no runnable thread
run_no_runnables(available) ==
    IF available = << >> THEN "Ok" ELSE "Deadlock"

\* a poll whose list of runnable threads has another order in a second run
poll_ready_order_varies(rdy, i, state) ==
    IF state # "READY" THEN rdy
    ELSE IF phase = 2 THEN << i >> \o rdy
    ELSE Append(rdy, i)

\* poll: `ready` after thread number i reported state
poll_ready(rdy, i, state) ==
    IF state = "READY" THEN Append(rdy, i) ELSE rdy

\* a poll that keeps accounting the threads that reported FINAL
poll_total_keeps_final(tot, i, state) == Append(tot, i)

\* poll: `total` after thread number i reported state
poll_total(tot, i, state) ==
    IF state = "FINAL" THEN tot ELSE Append(tot, i)

\* a choice among all the threads instead of the runnable ones
choice_any_thread(runnables) == 1..Len(threads)

\* run: random.choice(runnables), the candidates: runnables[j] for the
\* index j the generator draws, any index of the list
choice(runnables) == {runnables[j] : j \in 1..Len(runnables)}

\* the index random.choice drew when it returned x from runnables (the
\* threads of a list of runnables are distinct)
DrawOf(runnables, x) ==
    CHOOSE j \in 1..Len(runnables) : runnables[j] = x

\* runner.RunStats(): the counters of a fresh statistics object
RunStats == [ok |-> 0, deadlock |-> 0, timeout |-> 0, panic |-> 0]

\* no loop controller: run is called directly
NoLooper == [kind |-> "none", n |-> 0]

\* replay: nothing recorded yet
NoFirst ==
    [trace |-> << >>, result |-> "none", err |-> "", sh |-> InitShared]

\* a driver that hands the iterable it was given to every run: a one-shot
\* iterable is used up by the first run
simsched_coros_one_shot(icoros, ran) == IF ran = 0 THEN icoros ELSE << >>

\* simsched: coros = list(icoros), made once before the loop: the list the
\* run after `ran` earlier runs is given, for the iterable icoros
simsched_coros(icoros, ran) == icoros

\* the coros argument of run: the constructor list of the scenario, handed
\* over directly or by simsched
Coros ==
    IF dpc = "direct" THEN Constructors(scn.name, scn.k)
    ELSE simsched_coros(Constructors(scn.name, scn.k), nruns)

Init ==
    /\ scn \in Scenarios
    /\ max_steps \in (1..MaxBudget) \cup {DefaultMaxSteps}
    /\ epc = "spawn"
    /\ threads = << >>
    /\ sh = InitShared
    /\ it = 0
    /\ pi = 0
    /\ ready = << >>
    /\ total = << >>
    /\ result = "none"
    /\ err = ""
    /\ nconts = 0
    /\ last_cont = 0
    /\ trace = << >>
    /\ phase = 0
    /\ first = NoFirst
    /\ dpc = "direct"
    /\ looper = NoLooper
    /\ stats = RunStats
    /\ derr = ""
    /\ nticks = 0
    /\ nruns = 0

\* run: threads = spawn_coroutines(coros)
Spawn ==
    /\ epc = "spawn"
    /\ LET r == spawn_coroutines(Coros, << >>, sh)
       IN  /\ threads' = r.threads
           /\ sh' = r.sh
           /\ IF r.ok
              THEN epc' = "loop" /\ UNCHANGED <<result, err>>
              ELSE epc' = "done" /\ result' = "Escaped"
                   /\ err' = "AssertionError"
    /\ UNCHANGED <<scn, max_steps, it, pi, ready, total, nconts, last_cont,
                   trace>>
    /\ UNCHANGED xvars

\* run: the head of `for _ in range(max_steps + len(threads))`, and its else
Loop ==
    /\ epc = "loop"
    /\ IF it < run_range(max_steps, Len(threads))
       THEN /\ it' = it + 1
            /\ epc' = "poll"
            /\ pi' = 1
            /\ ready' = << >>
            /\ total' = << >>
            /\ UNCHANGED result
       ELSE /\ result' = "Timeout"
            /\ epc' = "done"
            /\ UNCHANGED <<it, pi, ready, total>>
    /\ UNCHANGED <<scn, max_steps, threads, sh, err, nconts, last_cont, trace>>
    /\ UNCHANGED xvars

\* a poll inside the try of the step: the error of a predicate ends the run
\* with Panic
PollThread_panics ==
    /\ epc = "poll"
    /\ pi <= Len(threads)
    /\ LET r == Send(threads[pi], "POLL", sh)
       IN  /\ threads' = [threads EXCEPT ![pi] = r.thr]
           /\ sh' = r.sh
           /\ IF r.out = "yield"
              THEN /\ ready' = poll_ready(ready, pi, r.thr.st)
                   /\ total' = poll_total(total, pi, r.thr.st)
                   /\ pi' = pi + 1
                   /\ UNCHANGED <<epc, result, err>>
              ELSE /\ epc' = "done"
                   /\ result' = "Panic"
                   /\ err' = r.e
                   /\ UNCHANGED <<pi, ready, total>>
    /\ UNCHANGED <<scn, max_steps, it, nconts, last_cont, trace>>
    /\ UNCHANGED xvars

\* poll: one round of `for thrd in threads`
PollThread ==
    /\ epc = "poll"
    /\ pi <= Len(threads)
    /\ LET r == Send(threads[pi], "POLL", sh)
       IN  /\ threads' = [threads EXCEPT ![pi] = r.thr]
           /\ sh' = r.sh
           /\ IF r.out = "yield"
              THEN /\ ready' = poll_ready(ready, pi, r.thr.st)
                   /\ total' = poll_total(total, pi, r.thr.st)
                   /\ pi' = pi + 1
                   /\ UNCHANGED <<epc, result, err>>
              ELSE \* no exception is caught while polling: it leaves run
                   /\ epc' = "done"
                   /\ result' = "Escaped"
                   /\ err' = r.e
                   /\ UNCHANGED <<pi, ready, total>>
    /\ UNCHANGED <<scn, max_steps, it, nconts, last_cont, trace>>
    /\ UNCHANGED xvars

\* poll: return ready, total
PollReturn ==
    /\ epc = "poll"
    /\ pi > Len(threads)
    /\ epc' = "decide"
    /\ UNCHANGED <<scn, max_steps, threads, sh, it, pi, ready, total, result,
                   err, nconts, last_cont, trace>>
    /\ UNCHANGED xvars

\* run: `if not runnables`: return SimOk() or SimDeadlock()
NoRunnables ==
    /\ epc = "decide"
    /\ ready = << >>
    /\ result' = run_no_runnables(total)
    /\ epc' = "done"
    /\ UNCHANGED <<scn, max_steps, threads, sh, it, pi, ready, total, err,
                   nconts, last_cont, trace>>
    /\ UNCHANGED xvars

\* a run that suppresses the error of a step and goes on with the loop
run_after_cont_suppress(r) ==
    [epc |-> "loop", result |-> "none", err |-> ""]

\* a run without the try/except around the step: the error leaves run
run_after_cont_no_try(r) ==
    IF r.out # "yield"
    THEN [epc |-> "done", result |-> "Escaped", err |-> r.e]
    ELSE [epc |-> "loop", result |-> "none", err |-> ""]

\* run: what follows thrd.send(CONT): [epc, result, err]
run_after_cont(r) ==
    IF r.out # "yield"
    THEN [epc |-> "done", result |-> "Panic", err |-> r.e]
    ELSE IF r.thr.st # "YIELD"
    THEN [epc |-> "done", result |-> "Escaped", err |-> "AssertionError"]
    ELSE [epc |-> "loop", result |-> "none", err |-> ""]

\* run: pick a runnable thread at random and advance it with CONT
Step ==
    /\ epc = "decide"
    /\ ready # << >>
    /\ \E thrd \in choice(ready) :
          LET r == Send(threads[thrd], "CONT", sh)
              n == run_after_cont(r)
          IN  /\ threads' = [threads EXCEPT ![thrd] = r.thr]
              /\ sh' = r.sh
              /\ nconts' = nconts + 1
              /\ last_cont' = thrd
              /\ trace' = IF phase = 0 THEN trace
                          ELSE Append(trace, [runnables |-> ready,
                                              draw |-> DrawOf(ready, thrd),
                                              thrd |-> thrd])
              /\ epc' = n.epc
              /\ result' = n.result
              /\ err' = n.err
    /\ UNCHANGED <<scn, max_steps, it, pi, ready, total>>
    /\ UNCHANGED xvars

Next == Spawn \/ Loop \/ PollThread \/ PollReturn \/ NoRunnables \/ Step

Spec == Init /\ [][Next]_vars

\* ----------------------------------------- unlock by a thread not the owner

\* test_mutex_single_unlock, and a holder, a thief and a third thread on one
\* mutex
UnlockScenarios == [name : {"single_unlock", "unlock_steal"}, k : {0}]

\* the shared objects of these tests: test_mutex_single_unlock creates its
\* mutex with Mutex(locked=True)
UnlockShared(name) ==
    IF name = "single_unlock" THEN [InitShared EXCEPT !.locked[0] = TRUE]
    ELSE InitShared

InitUnlock ==
    /\ scn \in UnlockScenarios
    /\ max_steps \in (1..MaxBudget) \cup {DefaultMaxSteps}
    /\ epc = "spawn"
    /\ threads = << >>
    /\ sh = UnlockShared(scn.name)
    /\ it = 0
    /\ pi = 0
    /\ ready = << >>
    /\ total = << >>
    /\ result = "none"
    /\ err = ""
    /\ nconts = 0
    /\ last_cont = 0
    /\ trace = << >>
    /\ phase = 0
    /\ first = NoFirst
    /\ dpc = "direct"
    /\ looper = NoLooper
    /\ stats = RunStats
    /\ derr = ""
    /\ nticks = 0
    /\ nruns = 0

SpecUnlock == InitUnlock /\ [][Next]_vars

\* ------------------------------------------ the demos of examples/x86tso.py

\* play_demo runs a demo's processors and store buffers with the default
\* budget
TSOScenarios == [name : {"sb", "iriw"}, k : {0}]

InitTSO ==
    /\ scn \in TSOScenarios
    /\ max_steps = DefaultMaxSteps
    /\ epc = "spawn"
    /\ threads = << >>
    /\ sh = InitShared
    /\ it = 0
    /\ pi = 0
    /\ ready = << >>
    /\ total = << >>
    /\ result = "none"
    /\ err = ""
    /\ nconts = 0
    /\ last_cont = 0
    /\ trace = << >>
    /\ phase = 0
    /\ first = NoFirst
    /\ dpc = "direct"
    /\ looper = NoLooper
    /\ stats = RunStats
    /\ derr = ""
    /\ nticks = 0
    /\ nruns = 0

\* engine.poll as one step: poll the threads from number i on, in order;
\* [threads, sh, ready, total, out, e] with out = "raise" when a predicate
\* raised (no exception is caught while polling)
RECURSIVE poll(_, _, _, _, _)
poll(ts, i, s, rdy, tot) ==
    IF i > Len(ts)
    THEN [threads |-> ts, sh |-> s, ready |-> rdy, total |-> tot,
          out |-> "yield", e |-> ""]
    ELSE LET after(r) ==
                 IF r.out = "yield"
                 THEN poll([ts EXCEPT ![i] = r.thr], i + 1, r.sh,
                           poll_ready(rdy, i, r.thr.st),
                           poll_total(tot, i, r.thr.st))
                 ELSE [threads |-> [ts EXCEPT ![i] = r.thr], sh |-> r.sh,
                       ready |-> rdy, total |-> tot, out |-> r.out,
                       e |-> r.e]
         IN  after(Send(ts[i], "POLL", s))

\* run: the head of the for loop and the call of poll, with the threads ts
\* and the shared state s: the engine's variables when poll has returned
run_poll(ts, s) ==
    IF it < run_range(max_steps, Len(ts))
    THEN LET q == poll(ts, 1, s, << >>, << >>)
         IN  [it |-> it + 1, threads |-> q.threads, sh |-> q.sh,
              ready |-> q.ready, total |-> q.total,
              epc |-> IF q.out = "yield" THEN "decide" ELSE "done",
              result |-> IF q.out = "yield" THEN "none" ELSE "Escaped",
              err |-> q.e]
    ELSE [it |-> it, threads |-> ts, sh |-> s, ready |-> ready,
          total |-> total, epc |-> "done", result |-> "Timeout", err |-> ""]

\* run: the first iteration, up to the return of poll
Poll ==
    /\ epc = "loop"
    /\ \E n \in {run_poll(threads, sh)} :
           /\ it' = n.it
           /\ threads' = n.threads
           /\ sh' = n.sh
           /\ ready' = n.ready
           /\ total' = n.total
           /\ epc' = n.epc
           /\ result' = n.result
           /\ err' = n.err
    /\ UNCHANGED <<scn, max_steps, pi, nconts, last_cont, trace>>
    /\ UNCHANGED xvars

\* run: pick a runnable thread at random, advance it with CONT and, unless
\* run returns, go on to the next iteration up to the return of poll (thrd
\* is not used after the step and is not recorded)
StepPoll ==
    /\ epc = "decide"
    /\ ready # << >>
    /\ \E thrd \in choice(ready) :
       \E r \in {Send(threads[thrd], "CONT", sh)} :
       \E c \in {run_after_cont(r)} :
       \E ts \in {[threads EXCEPT ![thrd] = r.thr]} :
          /\ nconts' = nconts + 1
          /\ IF c.epc = "loop"
             THEN \E n \in {run_poll(ts, r.sh)} :
                      /\ it' = n.it
                      /\ threads' = n.threads
                      /\ sh' = n.sh
                      /\ ready' = n.ready
                      /\ total' = n.total
                      /\ epc' = n.epc
                      /\ result' = n.result
                      /\ err' = n.err
             ELSE /\ threads' = ts
                  /\ sh' = r.sh
                  /\ epc' = c.epc
                  /\ result' = c.result
                  /\ err' = c.err
                  /\ UNCHANGED <<it, ready, total>>
    /\ UNCHANGED <<scn, max_steps, pi, last_cont, trace>>
    /\ UNCHANGED xvars

NextTSO == Spawn \/ Poll \/ NoRunnables \/ StepPoll

SpecTSO == InitTSO /\ [][NextTSO]_vars

\* the demos with a fence, a locked instruction or a load of an own store
FenceScenarios ==
    [name : {"ex_8_4", "amd5", "ex_8_9", "locked", "store_twice"}, k : {0}]

InitFence ==
    /\ scn \in FenceScenarios
    /\ max_steps = DefaultMaxSteps
    /\ epc = "spawn"
    /\ threads = << >>
    /\ sh = InitShared
    /\ it = 0
    /\ pi = 0
    /\ ready = << >>
    /\ total = << >>
    /\ result = "none"
    /\ err = ""
    /\ nconts = 0
    /\ last_cont = 0
    /\ trace = << >>
    /\ phase = 0
    /\ first = NoFirst
    /\ dpc = "direct"
    /\ looper = NoLooper
    /\ stats = RunStats
    /\ derr = ""
    /\ nticks = 0
    /\ nruns = 0

SpecFence == InitFence /\ [][NextTSO]_vars

\* ------------------------------------------------------------------- runner

\* The loop controllers handed to simsched:
\*   "total_below"    test_simsched_simple: while stats.total < n: yield
\*   "until_deadlock" test_simsched_abba_deadlock: while stats.total < n,
\*                    yield, return when stats.last is a deadlock
\*   "count_below"    while ok + deadlock + timeout + panic < n: yield
\*   "time_report"    runner.time_report_looper with a reporter that raises
\*                    KeyboardInterrupt after n runs at the latest
Loopers ==
    [kind : {"total_below", "count_below"}, n : 0..MaxRuns]
        \cup [kind : {"until_deadlock", "time_report"}, n : {MaxRuns}]

\* reading attribute a of the statistics object st: whether it raises
AttributeError(st, a) == a \notin DOMAIN st

\* the sum of the four counters of st
Counted(st) == st.ok + st.deadlock + st.timeout + st.panic

\* next(looper): the outcomes of resuming loop controller l, which has
\* produced `ticks` ticks, with the statistics st: "tick", "stop" (the
\* iterator is exhausted) or the error it raises
looper_next(l, st, ticks) ==
    CASE l.kind = "total_below" ->
            IF AttributeError(st, "total") THEN {"AttributeError"}
            ELSE IF st.total < l.n THEN {"tick"} ELSE {"stop"}
      [] l.kind = "until_deadlock" ->
            IF ticks > 0 /\ AttributeError(st, "last") THEN {"AttributeError"}
            ELSE IF ticks > 0 /\ st.last = "Deadlock" THEN {"stop"}
            ELSE IF AttributeError(st, "total") THEN {"AttributeError"}
            ELSE IF st.total < l.n THEN {"tick"}
            ELSE {"deadlock not detected"}
      [] l.kind = "count_below" ->
            IF Counted(st) < l.n THEN {"tick"} ELSE {"stop"}
      [] l.kind = "time_report" ->
            \* the first resumption runs to the yield; a later one calls the
            \* reporter if the interval has passed, and the reporter may
            \* raise KeyboardInterrupt
            (IF ticks < l.n THEN {"tick"} ELSE {})
                \cup (IF ticks > 0 THEN {"KeyboardInterrupt"} ELSE {})

\* a driver that runs once more when the loop controller is exhausted
simsched_after_looper_runs_again(o) ==
    IF o \in {"tick", "stop"} THEN [dpc |-> "run", derr |-> ""]
    ELSE IF o = "KeyboardInterrupt"
    THEN [dpc |-> "exit", derr |-> ""]
    ELSE [dpc |-> "exit", derr |-> o]

\* simsched: what follows next(looper) with outcome o: the body of the for
\* loop, or the exit from the with block: with nothing to raise after the
\* loop or with a KeyboardInterrupt, which suppress swallows, else with the
\* error o
simsched_after_looper(o) ==
    IF o = "tick" THEN [dpc |-> "run", derr |-> ""]
    ELSE IF o \in {"stop", "KeyboardInterrupt"}
    THEN [dpc |-> "exit", derr |-> ""]
    ELSE [dpc |-> "exit", derr |-> o]

\* a driver that counts a timeout as a deadlock
simsched_count_timeout_as_deadlock(st, r) ==
    CASE r = "Ok" -> [st EXCEPT !.ok = @ + 1]
      [] r = "Deadlock" -> [st EXCEPT !.deadlock = @ + 1]
      [] r = "Timeout" -> [st EXCEPT !.deadlock = @ + 1]
      [] r = "Panic" -> [st EXCEPT !.panic = @ + 1]

\* simsched: the match on the result r of run
simsched_count(st, r) ==
    CASE r = "Ok" -> [st EXCEPT !.ok = @ + 1]
      [] r = "Deadlock" -> [st EXCEPT !.deadlock = @ + 1]
      [] r = "Timeout" -> [st EXCEPT !.timeout = @ + 1]
      [] r = "Panic" -> [st EXCEPT !.panic = @ + 1]

\* a driver that a panic of a run takes down
simsched_after_run_panic_ends(r, e) ==
    IF r \in {"Ok", "Deadlock", "Timeout"}
    THEN [dpc |-> "looper", derr |-> ""]
    ELSE [dpc |-> "exit", derr |-> e]

\* simsched: what follows run(coros): the next round of the for loop when
\* run returned a result, the exit from the with block with the error e
\* when run raised it
simsched_after_run(r, e) ==
    IF r \in {"Ok", "Deadlock", "Timeout", "Panic"}
    THEN [dpc |-> "looper", derr |-> ""]
    ELSE [dpc |-> "exit", derr |-> e]

\* the constructor lists simsched is given
DriverScenarios ==
    [name : {"single", "deadlock", "loop", "exception", "poll_raises", "abba"},
     k : {0}]

\* simsched(icoros, loopctr) when it is called: run is called with its
\* default max_steps
InitDriver ==
    /\ scn \in DriverScenarios
    /\ max_steps = DefaultMaxSteps
    /\ epc = "idle"
    /\ threads = << >>
    /\ sh = InitShared
    /\ it = 0
    /\ pi = 0
    /\ ready = << >>
    /\ total = << >>
    /\ result = "none"
    /\ err = ""
    /\ nconts = 0
    /\ last_cont = 0
    /\ trace = << >>
    /\ phase = 0
    /\ first = NoFirst
    /\ dpc = "start"
    /\ looper \in Loopers
    /\ stats = RunStats
    /\ derr = ""
    /\ nticks = 0
    /\ nruns = 0

\* simsched up to the for loop: stats = RunStats(); coros = list(icoros);
\* the with block is entered
Enter ==
    /\ dpc = "start"
    /\ dpc' = "looper"
    /\ UNCHANGED <<scn, max_steps, epc, threads, sh, it, pi, ready, total,
                   result, err, nconts, last_cont, trace, phase, first,
                   looper, stats, derr, nticks, nruns>>

\* a driver that re-creates the shared objects before every run
simsched_shared_reset(s) == InitShared

\* simsched: the shared objects of the threads when run is called on a tick,
\* s being their state after the run before: simsched touches none of them
simsched_shared(s) == s

\* simsched: `for _ in loopctr(stats)`: resume the loop controller; on a tick
\* enter the body, which calls run(coros)
LooperNext ==
    /\ dpc = "looper"
    /\ \E o \in looper_next(looper, stats, nticks) :
          LET n == simsched_after_looper(o)
          IN  /\ dpc' = n.dpc
              /\ derr' = n.derr
              /\ nticks' = IF o = "tick" THEN nticks + 1 ELSE nticks
              /\ IF n.dpc = "run"
                 THEN /\ epc' = "spawn"
                      /\ threads' = << >>
                      /\ it' = 0
                      /\ pi' = 0
                      /\ ready' = << >>
                      /\ total' = << >>
                      /\ result' = "none"
                      /\ err' = ""
                      /\ nconts' = 0
                      /\ last_cont' = 0
                 ELSE UNCHANGED <<epc, threads, it, pi, ready, total, result,
                                  err, nconts, last_cont>>
              /\ sh' = IF n.dpc = "run" THEN simsched_shared(sh) ELSE sh
    /\ UNCHANGED <<scn, max_steps, trace, phase, first, looper,
                   stats, nruns>>

\* simsched: `match run(coros)`: count the result of the run that returned
Count ==
    /\ dpc = "run"
    /\ epc = "done"
    /\ LET n == simsched_after_run(result, err)
       IN  /\ dpc' = n.dpc
           /\ derr' = n.derr
           /\ IF n.dpc = "looper"
              THEN /\ stats' = simsched_count(stats, result)
                   /\ nruns' = nruns + 1
              ELSE UNCHANGED <<stats, nruns>>
    /\ epc' = "idle"
    /\ UNCHANGED <<scn, max_steps, threads, sh, it, pi, ready, total, result,
                   err, nconts, last_cont, trace, phase, first, looper,
                   nticks>>

\* simsched leaves the with block: suppress.__exit__ has swallowed a
\* KeyboardInterrupt or had nothing to handle, and `return stats` executes;
\* or it let the pending error derr pass, which leaves simsched
Leave ==
    /\ dpc = "exit"
    /\ dpc' = IF derr = "" THEN "returned" ELSE "raised"
    /\ UNCHANGED <<scn, max_steps, epc, threads, sh, it, pi, ready, total,
                   result, err, nconts, last_cont, trace, phase, first,
                   looper, stats, derr, nticks, nruns>>

\* a KeyboardInterrupt arrives (SIGINT) while simsched executes; the
\* interpreter raises it where it handles pending signals.  Before the with
\* block is entered nothing catches it and it leaves simsched.  Inside the
\* with block contextlib.suppress catches it and the block is left with the
\* statistics as they are: while the loop controller is resumed and while
\* run executes (`except Exception` of run does not catch it).  Raised
\* inside thrd.send(POLL) of poll it finishes the polled generator.  Raised
\* inside thrd.send(CONT) it ends the step where the step is: the shared
\* objects keep what the step has written so far and the generator is
\* finished; raised at SimPanic(e) it finds the thread finished by its own
\* error.  Between the return of run and the end of the arm that counts
\* its result no pending signal is handled.  While the block is being left
\* (suppress.__exit__ is called, also with an error of run or of the
\* looper on its way out, then `return stats`) nothing catches it: it
\* leaves simsched, in place of the error on its way out if there is one.
Interrupt ==
    /\ \/ /\ dpc = "start"
          /\ dpc' = "raised"
          /\ derr' = "KeyboardInterrupt"
          /\ UNCHANGED <<epc, threads, sh, nconts, last_cont>>
       \/ /\ dpc = "looper"
          /\ dpc' = "exit"
          /\ UNCHANGED <<epc, derr, threads, sh, nconts, last_cont>>
       \/ /\ dpc = "run"
          /\ epc \in {"spawn", "loop", "poll", "decide"}
          /\ dpc' = "exit"
          /\ epc' = "idle"
          /\ UNCHANGED <<derr, threads, sh, nconts, last_cont>>
       \/ /\ dpc = "run"
          /\ epc = "poll"
          /\ pi <= Len(threads)
          /\ threads' = [threads EXCEPT ![pi] = Killed(@)]
          /\ dpc' = "exit"
          /\ epc' = "idle"
          /\ UNCHANGED <<derr, sh, nconts, last_cont>>
       \/ /\ dpc = "run"
          /\ epc = "decide"
          /\ ready # << >>
          /\ \E thrd \in choice(ready) :
                \E r \in SendInterrupted(threads[thrd], sh) :
                    /\ threads' = [threads EXCEPT ![thrd] = r.thr]
                    /\ sh' = r.sh
                    /\ nconts' = nconts + 1
                    /\ last_cont' = thrd
          /\ dpc' = "exit"
          /\ epc' = "idle"
          /\ UNCHANGED derr
       \/ /\ dpc = "run"
          /\ epc = "done"
          /\ result = "Escaped"
          /\ dpc' = "raised"
          /\ derr' = "KeyboardInterrupt"
          /\ epc' = "idle"
          /\ UNCHANGED <<threads, sh, nconts, last_cont>>
       \/ /\ dpc = "exit"
          /\ dpc' = "raised"
          /\ derr' = "KeyboardInterrupt"
          /\ UNCHANGED <<epc, threads, sh, nconts, last_cont>>
    /\ UNCHANGED <<scn, max_steps, it, pi, ready, total, result, err, trace,
                   phase, first, looper, stats, nticks, nruns>>

NextDriver ==
    \/ Enter
    \/ LooperNext
    \/ Spawn \/ Loop \/ PollThread \/ PollReturn \/ NoRunnables \/ Step
    \/ Count
    \/ Leave
    \/ Interrupt

SpecDriver == InitDriver /\ [][NextDriver]_vars

\* ------------------------------------------------------------------- replay

\* the constructor lists that are run twice: one thread, and the lists of
\* two threads
ReplayScenarios ==
    [name : {"single", "loop", "abba", "exception_pair", "deadlock_pair",
             "channel_both", "finish_pair", "poll_raises"},
     k : {0}]

\* run(coros, max_steps), the first of two calls; the endless thread of
\* "loop" is replayed with the small budgets only
InitReplay ==
    /\ scn \in ReplayScenarios
    /\ max_steps \in (1..MaxBudget) \cup {DefaultMaxSteps}
    /\ scn.name = "loop" => max_steps # DefaultMaxSteps
    /\ epc = "spawn"
    /\ threads = << >>
    /\ sh = InitShared
    /\ it = 0
    /\ pi = 0
    /\ ready = << >>
    /\ total = << >>
    /\ result = "none"
    /\ err = ""
    /\ nconts = 0
    /\ last_cont = 0
    /\ trace = << >>
    /\ phase = 1
    /\ first = NoFirst
    /\ dpc = "direct"
    /\ looper = NoLooper
    /\ stats = RunStats
    /\ derr = ""
    /\ nticks = 0
    /\ nruns = 0

\* the first run is over: note what it did, recreate the shared objects
\* and call run with the same arguments
Replay ==
    /\ phase = 1
    /\ epc = "done"
    /\ first' = [trace |-> trace, result |-> result, err |-> err, sh |-> sh]
    /\ phase' = 2
    /\ epc' = "spawn"
    /\ threads' = << >>
    /\ sh' = InitShared
    /\ it' = 0
    /\ pi' = 0
    /\ ready' = << >>
    /\ total' = << >>
    /\ result' = "none"
    /\ err' = ""
    /\ nconts' = 0
    /\ last_cont' = 0
    /\ trace' = << >>
    /\ UNCHANGED <<scn, max_steps, dpc, looper, stats, derr, nticks, nruns>>

NextReplay ==
    Spawn \/ Loop \/ PollThread \/ PollReturn \/ NoRunnables \/ Step \/ Replay

SpecReplay == InitReplay /\ [][NextReplay]_vars

\* ------------------------------------------------------------------- claims

ThreadIds == 1..Len(threads)

Alive(i) == threads[i].stack # << >>

\* thread i is suspended inside finish()
InFinish(i) == Alive(i) /\ CurIns(threads[i]).op = "finish"

\* the elements of a sequence of thread indices
Elems(q) == {q[j] : j \in 1..Len(q)}

\* C1: run returns Ok only from a poll phase that polled every thread and
\* found none runnable and none unfinished; then every spawned thread is
\* suspended in finish() and has reported FINAL, and in the scenario of
\* several always-runnable threads every body has run to its end.
C1_OkOnlyWhenAllFinal ==
    result = "Ok" =>
        /\ pi > Len(threads)
        /\ ready = << >>
        /\ total = << >>
        /\ \A i \in ThreadIds : InFinish(i) /\ threads[i].st = "FINAL"
        /\ scn.name = "multiple" =>
              /\ Len(threads) = NrThreads + 1
              /\ \A n \in 0..NrThreads : sh.steps[n]

C1_Witness ==
    /\ result = "Ok"
    /\ scn.name = "multiple"
    /\ Len(threads) >= 3
    /\ nconts = 2 * Len(threads)

\* C2: run returns Deadlock exactly when a completed poll phase found no
\* runnable thread and at least one unfinished one: every thread is then
\* either blocked (reported BLOCK, in `total`) or final.  A thread waiting in
\* cond_schedule on an always-false predicate never runs the code after it.
C2_DeadlockIffBlocked ==
    /\ result = "Deadlock" =>
          /\ pi > Len(threads)
          /\ ready = << >>
          /\ total # << >>
          /\ \A i \in ThreadIds :
                IF i \in Elems(total)
                THEN threads[i].st = "BLOCK"
                ELSE threads[i].st = "FINAL"
    /\ (epc = "done" /\ pi > Len(threads) /\ ready = << >> /\ total # << >>)
          => result = "Deadlock"
    /\ \A i \in ThreadIds :
          (threads[i].t.f = "thread_deadlock" /\ sh.steps[0]) =>
              /\ ~sh.steps[1]
              /\ Alive(i)
              /\ CurIns(threads[i]) = Ins("cond_schedule", "False", 0)

C2_Witness ==
    /\ result = "Deadlock"
    /\ scn.name = "deadlock_pair"
    /\ sh.steps[0]
    /\ threads[1].st = "FINAL"
    /\ threads[2].st = "BLOCK"

\* C3: when the step of the thread resumed with CONT raises, run returns
\* Panic with the error the thread raised, run itself raises nothing, and
\* from then on no thread is resumed and nothing changes.
C3_StepErrorIsPanic ==
    [][ /\ (epc = "decide" /\ ready # << >>) =>
             \A i \in ThreadIds :
                 (threads'[i].exc # "" /\ threads[i].exc = "") =>
                     /\ last_cont' = i
                     /\ result' = "Panic"
                     /\ err' = threads'[i].exc
                     /\ epc' = "done"
        /\ result = "Panic" => UNCHANGED vars ]_vars

C3_Witness ==
    /\ result = "Panic"
    /\ err = "testmsg"
    /\ scn.name = "exception_pair"
    /\ threads[1].exc = "testmsg"
    /\ Alive(2)
    /\ ~InFinish(2)

\* C4: a single thread of k steps separated by k-1 schedule() calls: run
\* returns Timeout when max_steps < k and Ok when max_steps >= k.
C4_TimeoutBoundary ==
    (scn.name = "timeout" /\ epc = "done") =>
        result = IF max_steps < scn.k THEN "Timeout" ELSE "Ok"

C4_Witness ==
    /\ scn.name = "timeout"
    /\ scn.k = 4
    /\ max_steps = 3
    /\ result = "Timeout"

RunResults == {"Ok", "Deadlock", "Timeout", "Panic"}

\* some thread of the constructor list waits on a predicate that raises
HasRaisingPredicate ==
    \E j \in 1..Len(Constructors(scn.name, scn.k)) :
        LET t == Constructors(scn.name, scn.k)[j]
            body == Code(t.f, t.a, t)
        IN  \E n \in 1..Len(body) :
                body[n].op = "cond_schedule" /\ raises(body[n].f)

\* C5 as stated: for every constructor list and every max_steps >= 1 run
\* ends by returning one of Ok, Deadlock, Timeout, Panic: no error leaves
\* run in place of a result.
C5_AlwaysOneOfFour ==
    epc = "done" => result \in RunResults

\* C5, amended: for constructor lists whose threads suspend only through the
\* scheduling primitives and whose readiness predicates do not raise, run
\* returns one of Ok, Deadlock, Timeout, Panic and nothing else, and an error
\* is carried by Panic only.
C5_OneOfFourUnlessPredicateRaises ==
    ~HasRaisingPredicate =>
        /\ epc = "done" =>
              /\ result \in RunResults
              /\ (err # "") <=> (result = "Panic")
        /\ epc # "done" => result = "none"

C5_Witness ==
    /\ scn.name = "exception_pair"
    /\ max_steps = 1
    /\ result = "Panic"
    /\ nconts = 3

\* C6: the only transition that changes the shared state, a thread's local
\* state or its position is the step phase of an iteration; it sends CONT to
\* exactly one thread, a member of the runnable set the poll phase of that
\* same iteration computed, and leaves every other thread as it was.  Every
\* iteration that does not end the run has sent exactly one CONT.
C6_OneContPerIteration ==
    /\ [](/\ epc = "loop" => nconts = it
          /\ epc \in {"poll", "decide"} => nconts = it - 1)
    /\ [][ (epc # "spawn" /\ (sh' # sh \/ nconts' # nconts
                \/ \E i \in ThreadIds :
                       \/ threads'[i].val # threads[i].val
                       \/ /\ threads'[i].stack # threads[i].stack
                          /\ threads'[i].stack # << >>)) =>
             /\ epc = "decide"
             /\ pi > Len(threads)
             /\ nconts' = nconts + 1
             /\ last_cont' \in Elems(ready)
             /\ threads[last_cont'].st = "READY"
             /\ \A j \in ThreadIds \ {last_cont'} : threads'[j] = threads[j]
       ]_vars

C6_Witness ==
    /\ scn.name = "counter"
    /\ epc = "loop"
    /\ nconts = 4
    /\ last_cont = 2
    /\ sh.cell = 1
    /\ ~sh.locked[0]
    /\ threads[1].st = "BLOCK"

\* C7: resuming a thread with POLL does not advance it: during the poll
\* phase no thread changes its position or its local state (a thread whose
\* predicate raises is only torn down), the shared state stays as it is and
\* no CONT is counted.
C7_PollDoesNotAdvance ==
    [][ epc = "poll" =>
          /\ sh' = sh
          /\ nconts' = nconts
          /\ \A i \in ThreadIds :
                /\ threads'[i].stack \in {threads[i].stack, << >>}
                /\ threads'[i].val = threads[i].val
                /\ i # pi => threads'[i] = threads[i]
       ]_vars

C7_Witness ==
    /\ scn.name = "counter"
    /\ epc = "poll"
    /\ pi = 3
    /\ threads[1].st = "READY"
    /\ threads[2].st = "BLOCK"
    /\ sh.locked[0]
    /\ sh.cell = 0

\* C8: a thread that has entered finish(), directly or in a nested
\* generator, stays there: every later POLL is answered FINAL, after a poll
\* phase it is neither in the runnable set nor among the unfinished threads,
\* it is never sent CONT, and the code after finish() never runs; a run whose
\* only thread does this returns Ok.
C8_FinishIsSticky ==
    /\ [](/\ \A i \in ThreadIds :
                (InFinish(i) /\ epc = "decide") =>
                    /\ threads[i].st = "FINAL"
                    /\ i \notin Elems(ready)
                    /\ i \notin Elems(total)
          /\ scn.name \in {"explicit_finish", "nested_finish", "finish_pair"}
                => ~sh.steps[1]
          /\ (scn.name \in {"explicit_finish", "nested_finish"}
                /\ epc = "done") => result = "Ok")
    /\ [][ \A i \in ThreadIds :
              InFinish(i) =>
                  /\ threads'[i].stack = threads[i].stack
                  /\ (epc = "poll" /\ pi = i) => threads'[i].st = "FINAL"
                  /\ nconts' # nconts => last_cont' # i
       ]_vars

C8_Witness ==
    /\ scn.name = "finish_pair"
    /\ epc = "decide"
    /\ InFinish(1)
    /\ Len(threads[1].stack) = 3
    /\ threads[1].st = "FINAL"
    /\ sh.steps[0]
    /\ ready = << 2 >>
    /\ it >= 3

\* the predicate thread i waits on holds in the current shared state
PredicateHolds(i) ==
    is_runnable(CurIns(threads[i]).f, CurIns(threads[i]).a, sh)

InCondSchedule(i) == Alive(i) /\ CurIns(threads[i]).op = "cond_schedule"

\* C9: cond_schedule(p) returns only when its thread is sent CONT, and CONT
\* is sent only to a thread whose predicate holds at that moment; after each
\* poll phase a waiting thread is READY (and in the runnable set) exactly
\* when its predicate holds now, whatever it reported before.
C9_ContOnlyWhenPredicateHolds ==
    /\ [](epc = "decide" =>
            \A i \in ThreadIds :
                InCondSchedule(i) =>
                    /\ threads[i].st =
                          IF PredicateHolds(i) THEN "READY" ELSE "BLOCK"
                    /\ (i \in Elems(ready)) <=> PredicateHolds(i))
    /\ [][ /\ nconts' # nconts =>
                /\ InCondSchedule(last_cont')
                /\ PredicateHolds(last_cont')
                /\ threads[last_cont'].st = "READY"
           /\ \A i \in ThreadIds :
                (InCondSchedule(i)
                    /\ threads'[i].stack # threads[i].stack
                    /\ threads'[i].exc # "predicate error")
                    => (nconts' = nconts + 1 /\ last_cont' = i)
       ]_vars

C9_Witness ==
    /\ scn.name = "counter"
    /\ epc = "poll"
    /\ pi = 2
    /\ InCondSchedule(2)
    /\ CurIns(threads[2]).f = "not_locked"
    /\ threads[2].st = "BLOCK"
    /\ PredicateHolds(2)

\* thread i has passed lock() and not yet unlock()
InCritical(i) ==
    /\ Alive(i)
    /\ \E d \in 1..Len(threads[i].stack) :
          /\ threads[i].stack[d].f = "thread_counter"
          /\ threads[i].stack[d].pc \in 2..4

\* thread i has written the counter and called unlock()
PastCritical(i) ==
    \/ InFinish(i)
    \/ /\ Alive(i)
       /\ \E d \in 1..Len(threads[i].stack) :
             /\ threads[i].stack[d].f = "thread_counter"
             /\ threads[i].stack[d].pc >= 5

\* C10: N threads that each lock, read the counter, schedule, write
\* counter + 1 and unlock: never two threads are between lock() and
\* unlock(), the mutex is locked exactly while one is, the counter counts
\* the threads that are through, and the run ends Ok with the counter at N
\* (or with Timeout when max_steps is below the 3N + 1 the threads need).
C10_MutexCounter ==
    scn.name = "counter" =>
        /\ Cardinality({i \in ThreadIds : InCritical(i)}) <= 1
        /\ sh.locked[0] <=> (\E i \in ThreadIds : InCritical(i))
        /\ sh.cell = Cardinality({i \in ThreadIds : PastCritical(i)})
        /\ epc = "done" =>
              /\ result \in {"Ok", "Timeout"}
              /\ result = "Ok" => sh.cell = NrThreads
              /\ max_steps >= 3 * NrThreads + 1 => result = "Ok"

C10_Witness ==
    /\ scn.name = "counter"
    /\ result = "Ok"
    /\ sh.cell = NrThreads
    /\ NrThreads >= 2
    /\ ~sh.locked[0]

\* the lock() calls of mutex m that completed, less its successful unlock()s
Held(m) == sh.locks[m] - sh.unlocks[m]

\* C11: for a mutex that starts unlocked and is changed only through lock()
\* and unlock(), locked is true exactly when the completed lock() calls
\* exceed the successful unlock() calls by one, and that difference is
\* never negative nor greater than one.
C11_LockedIffOneHeld ==
    \A m \in Mutexes :
        /\ Held(m) \in {0, 1}
        /\ sh.locked[m] <=> Held(m) = 1

\* the second thread of "counter" holds the mutex the first one released
C11_Witness ==
    /\ scn.name = "counter"
    /\ sh.locks[0] = 2
    /\ sh.unlocks[0] = 1
    /\ sh.locked[0]

\* the error Mutex.unlock raises
UnlockError == "trying to unlock non-locked mutex"

\* C12: unlock() on a mutex that is not locked raises an error that the run
\* reports as Panic, and the failed unlock changes nothing: in the run of
\* test_mutex_unlock_when_not_locked the result is Panic with that error and
\* the shared state is as it was created; no run ends otherwise with it.
C12_UnlockFreePanics ==
    /\ (scn.name = "unlock_free" /\ epc = "done") =>
            /\ result = "Panic"
            /\ err = UnlockError
            /\ sh = InitShared
    /\ err = UnlockError =>
            /\ result = "Panic"
            /\ \E i \in ThreadIds : threads[i].exc = UnlockError

C12_Witness ==
    /\ scn.name = "unlock_free"
    /\ result = "Panic"
    /\ ~sh.locked[0]
    /\ threads[1].exc = UnlockError

\* the items sent and not yet consumed
Pending == SubSeq(sh.sent, sh.consumed + 1, Len(sh.sent))

\* the items the Cell of a reader may hold: the newest consumed, the oldest
\* pending
Readable ==
    {sh.sent[k] : k \in {sh.consumed, sh.consumed + 1} \cap 1..Len(sh.sent)}

\* C13: a channel is a lossless FIFO: its buffer is always the items sent so
\* far less the prefix consumed; a peek copies the head and leaves the buffer
\* as it is, a consume removes exactly the head; send(x) then recv(out) with
\* no other producer gives out = x and an empty buffer.
C13_ChannelIsFifo ==
    /\ [](/\ sh.buf = Pending
          /\ \A i \in ThreadIds :
                threads[i].ret # 0 => threads[i].ret \in Readable
          /\ (scn.name = "channel_both" /\ sh.consumed = 1) =>
                /\ threads[2].ret = 1
                /\ sh.sent = << 1 >>
                /\ sh.buf = << >>
          /\ scn.name \in {"channel_both", "channel_stream"} =>
                result # "Panic")
    /\ [][/\ sh'.consumed = sh.consumed + 1 =>
                /\ sh.buf # << >>
                /\ sh'.buf = Tail(sh.buf)
                /\ threads'[last_cont'].ret = Head(sh.buf)
          /\ (/\ sh'.consumed = sh.consumed
              /\ \E i \in ThreadIds : /\ i \in DOMAIN threads'
                                       /\ threads'[i].ret # threads[i].ret) =>
                /\ sh.buf # << >>
                /\ sh'.buf = sh.buf
                /\ threads'[last_cont'].ret = Head(sh.buf)
          /\ sh'.consumed \in {sh.consumed, sh.consumed + 1}]_vars

\* the consumer of "channel_stream" took item 1 and item 2 is pending
C13_Witness ==
    /\ scn.name = "channel_stream"
    /\ sh.sent = << 1, 2 >>
    /\ sh.consumed = 1
    /\ sh.buf = << 2 >>
    /\ threads[2].ret = 1

\* thread i is suspended in peek, waiting for an item
InPeek(i) ==
    /\ InCondSchedule(i)
    /\ CurIns(threads[i]).f = "buf_nonempty"

\* C14: recv() and peek() on an empty channel do not return until an item
\* has been sent: a thread waiting in peek stays there while the buffer is
\* empty and no run ends with a read or a pop of an empty buffer; with no
\* sender the run of test_channel_recv_blocks returns Deadlock and the code
\* after recv() never runs.
C14_RecvBlocksOnEmpty ==
    /\ [](/\ err \notin {"deque index out of range",
                          "pop from an empty deque"}
          /\ scn.name = "channel_recv_blocks" =>
                /\ ~sh.steps[1]
                /\ epc = "done" => (result = "Deadlock" /\ sh.steps[0]))
    /\ [][\A i \in ThreadIds :
            (InPeek(i) /\ sh.buf = << >>) =>
                /\ threads'[i].stack = threads[i].stack
                /\ threads'[i].ret = threads[i].ret]_vars

C14_Witness ==
    /\ scn.name = "channel_recv_blocks"
    /\ result = "Deadlock"
    /\ InPeek(1)
    /\ sh.steps[0]
    /\ ~sh.steps[1]

\* simsched has ended: it returned the statistics or an error left it
Ended == dpc \in {"returned", "raised"}

\* C15: at every tick seen by the looper and when simsched returns,
\* stats.total = ok + deadlock + timeout + panic and equals the number of
\* runs completed so far; a looper that ticks while stats.total < n
\* therefore causes exactly n runs.
C15_TotalCountsRuns ==
    /\ (nticks > 0 /\ dpc \in {"looper", "returned"}) =>
            /\ ~AttributeError(stats, "total")
            /\ stats.total = Counted(stats)
            /\ stats.total = nruns
    /\ (looper.kind = "total_below" /\ Ended /\ nticks = nruns) =>
            /\ dpc = "returned"
            /\ nruns = looper.n

\* C16: stats.last is empty before the first run and, whenever the looper
\* is resumed after a tick, equals the result of the run just completed; a
\* looper that returns at the first tick after which last is Deadlock makes
\* simsched return with deadlock = 1.
C16_LastIsLatestResult ==
    /\ dpc = "looper" =>
            /\ ~AttributeError(stats, "last")
            /\ stats.last = (IF nruns = 0 THEN "None" ELSE result)
    /\ (looper.kind = "until_deadlock" /\ Ended /\ nticks = nruns) =>
            IF dpc = "returned"
            THEN stats.deadlock = 1
            ELSE derr = "deadlock not detected"

\* a run is executing or has just returned to simsched
InRun == epc \in {"spawn", "loop", "poll", "decide", "done"}

\* C17: the driver executes exactly one run per tick of the looper: no run
\* starts before the first tick, a run starts only when the looper, resumed,
\* produces a tick, and once the looper completes (or simsched ends
\* otherwise) nothing more is executed.
C17_OneRunPerTick ==
    /\ [](/\ nruns <= nticks
          /\ nticks <= nruns + 1
          /\ InRun => (dpc = "run" /\ nticks = nruns + 1)
          /\ dpc = "looper" => nticks = nruns
          /\ nticks = 0 => (threads = << >> /\ nconts = 0))
    /\ [][/\ (epc' = "spawn" /\ epc # "spawn") =>
                (dpc = "looper" /\ nticks' = nticks + 1)
          /\ nticks' = nticks + 1 => epc' = "spawn"
          /\ nruns' \in {nruns, nruns + 1}
          /\ nruns' = nruns + 1 => (dpc = "run" /\ epc = "done")
          /\ ~Ended]_vars

\* the second run is under way after the first one was counted
C17_Witness ==
    /\ nticks = 2
    /\ nruns = 1
    /\ dpc = "run"
    /\ epc = "decide"

\* the with block of simsched is left: the driver loop has ended
LoopEnds == dpc \in {"looper", "run"} /\ dpc' = "exit"

\* C18 as stated: a run that ends in Panic, Deadlock or Timeout does not end
\* the driver loop: it is counted and the looper is resumed; with a looper
\* that raises nothing the loop ends only when the looper completes or an
\* external interrupt occurs: no error is on its way out when the with
\* block is left, and the statistics are as accumulated.
C18_LoopEndsOnlyByLooperOrInterrupt ==
    [][/\ (dpc = "run" /\ epc = "done"
               /\ result \in {"Panic", "Deadlock", "Timeout"}) =>
             (dpc' = "looper" /\ nruns' = nruns + 1)
       /\ (looper.kind \in {"count_below", "time_report"} /\ LoopEnds) =>
             /\ derr' = ""
             /\ stats' = stats]_vars

\* C18, amended: a run that ends in Panic, Deadlock or Timeout does not end
\* the driver loop: it is counted and the looper is resumed.  The loop ends
\* when the looper completes or a KeyboardInterrupt occurs while the looper
\* or run executes, and simsched then returns
\* the accumulated statistics; it also ends when another error leaves the
\* looper or leaves run (a readiness predicate raising while polled), and
\* simsched then raises that error.  A KeyboardInterrupt that arrives before
\* the with block is entered or while it is being left (also with an error
\* on its way out) leaves simsched in place of the return or of that error.
\* The statistics change in no step that ends the loop or simsched.
C18_LoopEndsByLooperInterruptOrError ==
    [][/\ (dpc = "run" /\ epc = "done"
               /\ result \in {"Panic", "Deadlock", "Timeout"}) =>
             /\ dpc' = "looper"
             /\ nruns' = nruns + 1
             /\ Counted(stats') = Counted(stats) + 1
       /\ dpc' = "exit" => (dpc = "exit" \/ LoopEnds)
       /\ LoopEnds =>
             /\ stats' = stats
             /\ derr' # "KeyboardInterrupt"
             /\ derr' # "" =>
                   \/ dpc = "looper"
                   \/ (dpc = "run" /\ epc = "done" /\ result = "Escaped"
                          /\ derr' = err)
       /\ (~Ended /\ dpc' = "returned") =>
             /\ stats' = stats
             /\ dpc = "exit"
             /\ derr = ""
       /\ (~Ended /\ dpc' = "raised") =>
             /\ stats' = stats
             /\ \/ /\ dpc = "exit"
                   /\ derr # ""
                   /\ derr' = derr
                \/ /\ derr' = "KeyboardInterrupt"
                   /\ \/ dpc \in {"start", "exit"}
                      \/ (dpc = "run" /\ epc = "done"
                             /\ result = "Escaped")]_vars

\* after a run that panicked the looper produced the next tick
C18_Witness ==
    /\ scn.name = "exception"
    /\ stats.panic = 1
    /\ nticks = 2
    /\ dpc = "run"

\* the counter that matches result r
CounterOf(r) ==
    CASE r = "Ok" -> "ok"
      [] r = "Deadlock" -> "deadlock"
      [] r = "Timeout" -> "timeout"
      [] r = "Panic" -> "panic"

\* run has returned a result to simsched and the match has not executed
RunReturned == dpc = "run" /\ epc = "done" /\ result \in RunResults

\* C19: each completed run (run returned its result to simsched) increments
\* exactly the counter matching its result by 1 and leaves the other three
\* unchanged: once run has returned, no pending signal is handled before
\* the arm of the match has incremented the counter.  Nothing else changes a
\* counter and no counter ever decreases (the counters sum to the number of
\* runs that returned a result).
C19_OneCounterPerRun ==
    /\ [](Counted(stats) = nruns)
    /\ [][/\ RunReturned =>
                /\ nruns' = nruns + 1
                /\ stats' = [stats EXCEPT ![CounterOf(result)] = @ + 1]
                /\ dpc' = "looper"
          /\ nruns' = nruns + 1 => RunReturned
          /\ nruns' = nruns => stats' = stats
          /\ \A c \in DOMAIN stats : stats'[c] >= stats[c]]_vars

\* "abba": one run ended Ok, the next in Deadlock
C19_Witness ==
    /\ scn.name = "abba"
    /\ stats.ok = 1
    /\ stats.deadlock = 1
    /\ stats.timeout = 0
    /\ stats.panic = 0
    /\ nruns = 2

\* sequence p is a prefix of sequence q
IsPrefix(p, q) == Len(p) <= Len(q) /\ p = SubSeq(q, 1, Len(p))

\* the indices random.choice drew in the run with history tr, in order
Draws(tr) == [j \in 1..Len(tr) |-> tr[j].draw]

C21_AbbaOkOrDeadlock ==
    scn.name = "abba" =>
        /\ stats.timeout = 0
        /\ stats.panic = 0
        /\ epc = "done" =>
              /\ result \in {"Ok", "Deadlock"}
              /\ result = "Ok" =>
                    \A m \in Mutexes : ~sh.locked[m] /\ sh.owner[m] = "None"
              /\ result = "Deadlock" =>
                    \E m \in Mutexes : sh.locked[m]

\* a first run from unlocked mutexes ended Ok, the next one, again from
\* unlocked mutexes, in Deadlock with A and B held
C21_Witness ==
    /\ scn.name = "abba"
    /\ dpc = "run"
    /\ epc = "done"
    /\ stats.ok = 1
    /\ stats.deadlock = 0
    /\ result = "Deadlock"
    /\ \A m \in Mutexes : sh.locked[m]
    /\ threads[1].st = "BLOCK"
    /\ threads[2].st = "BLOCK"

\* C22: once a thread reported FINAL in a poll it is dropped from the live
\* set: for the rest of the run it is never resumed again, neither with
\* POLL nor with CONT.
C22_FinalNeverResumed ==
    [][\A i \in ThreadIds :
        threads[i].st = "FINAL" =>
            /\ ~(epc = "poll" /\ pi = i /\ pi' = i + 1)
            /\ ~(epc = "decide" /\ nconts' = nconts + 1 /\ last_cont' = i)]_vars

\* C23: a lock() followed by unlock() (by one thread, nothing in between)
\* restores the locked flag and the owner of the mutex to what they were
\* before the lock(), also when lock was called with an owner token:
\* whenever every lock() has been matched by an unlock(), flag and owner
\* are those the latest lock() found, and a step that both locks and
\* unlocks a mutex leaves its flag and owner as they were.
C23_LockUnlockRestores ==
    /\ [](\A m \in Mutexes :
            (sh.locks[m] > 0 /\ Held(m) = 0) =>
                /\ sh.locked[m] = sh.prior[m].locked
                /\ sh.owner[m] = sh.prior[m].owner)
    /\ [][\A m \in Mutexes :
            (sh'.locks[m] = sh.locks[m] + 1
                /\ sh'.unlocks[m] = sh.unlocks[m] + 1) =>
                /\ sh'.locked[m] = sh.locked[m]
                /\ sh'.owner[m] = sh.owner[m]]_vars

\* the thread locked with its token and unlocked in one step, and now
\* holds the mutex again
C23_Witness ==
    /\ scn.name = "owner_relock"
    /\ sh.locks[0] = 2
    /\ sh.unlocks[0] = 1
    /\ sh.owner[0] = "proc"
    /\ sh.prior[0] = [locked |-> FALSE, owner |-> "None"]

\* thread i is suspended in lock(), waiting for mutex m
InLock(i, m) ==
    /\ InCondSchedule(i)
    /\ CurIns(threads[i]).f = "not_locked"
    /\ CurIns(threads[i]).a = m

\* C24: lock() never succeeds on a locked mutex, whoever holds it: a lock()
\* completes only in a step that found the mutex unlocked, and a single
\* thread that calls lock() twice without unlock() makes run return
\* Deadlock with the mutex left locked (given max_steps for its two or, with
\* the round trip of "owner_relock" before, four steps; Timeout below).
C24_LockIsNotReentrant ==
    /\ [](/\ (scn.name = "self_deadlock" /\ epc = "done") =>
                IF max_steps >= 2
                THEN /\ result = "Deadlock"
                     /\ sh.locked[0]
                     /\ sh.locks[0] = 1
                     /\ InLock(1, 0)
                ELSE result = "Timeout"
          /\ (scn.name = "owner_relock" /\ epc = "done") =>
                IF max_steps >= 4
                THEN /\ result = "Deadlock"
                     /\ sh.locked[0]
                     /\ sh.owner[0] = "proc"
                     /\ sh.locks[0] = 2
                     /\ InLock(1, 0)
                ELSE result = "Timeout")
    /\ [][\A m \in Mutexes :
            sh'.locks[m] # sh.locks[m] =>
                /\ ~sh.locked[m]
                /\ sh'.locks[m] = sh.locks[m] + 1]_vars

C24_Witness ==
    /\ scn.name = "self_deadlock"
    /\ result = "Deadlock"
    /\ sh.locked[0]
    /\ InLock(1, 0)
    /\ threads[1].st = "BLOCK"

\* C25: with zero threads run returns Ok immediately (in its first
\* iteration), without delivering any CONT.
C25_NoThreadsIsOk ==
    scn.name = "empty" =>
        /\ threads = << >>
        /\ nconts = 0
        /\ it <= 1
        /\ epc = "done" => (result = "Ok" /\ it = 1)

C25_Witness ==
    /\ scn.name = "empty"
    /\ epc = "done"
    /\ result = "Ok"
    /\ it = 1
    /\ nconts = 0

\* the statements of the body of the thread built from constructor t
Body(t) == Code(t.f, t.a, t)

\* constructor t makes a multi-step thread: its body has a scheduling point
MultiStep(t) ==
    \E j \in 1..Len(Body(t)) :
        \/ Body(t)[j].op = "cond_schedule"
        \/ Body(t)[j].op = "yield_from" /\ Body(t)[j].f # "calls_exit"

\* constructor t makes a thread that only computes and calls schedule()
OnlySchedules(t) ==
    \A j \in 1..Len(Body(t)) :
        \/ Body(t)[j].op \in {"steps_set", "goto"}
        \/ Body(t)[j].op = "yield_from" /\ Body(t)[j].f = "schedule"

\* the run has max_steps = 1, contains a multi-step thread, and is over
BudgetOneRunOver ==
    /\ max_steps = 1
    /\ epc = "done"
    /\ \E j \in 1..Len(Constructors(scn.name, scn.k)) :
            MultiStep(Constructors(scn.name, scn.k)[j])

\* C26 as stated: with max_steps = 1, a run that contains any multi-step
\* thread returns Timeout.
C26_BudgetOneTimesOut ==
    BudgetOneRunOver => result = "Timeout"

\* C26, amended: with max_steps = 1, a run over N threads that contains a
\* multi-step thread never returns Ok.  It returns Timeout exactly when each
\* of its 1 + N iterations found a runnable thread and advanced it without
\* an error: always when all its threads only call schedule(), and also
\* with a thread blocked for good as long as another one stays runnable
\* ("deadlock_pair").  It returns Deadlock exactly when the poll of an
\* iteration finds no runnable thread (some thread is then blocked and fewer
\* than 1 + N threads were advanced), and Panic exactly when the thread it
\* advanced raised.  Otherwise the error of a readiness predicate left the
\* poll and run.
C26_BudgetOneNeverOk ==
    BudgetOneRunOver =>
        /\ result # "Ok"
        /\ result = "Timeout" <=>
              /\ nconts = run_range(1, Len(threads))
              /\ err = ""
        /\ result = "Deadlock" <=>
              /\ pi > Len(threads)
              /\ ready = << >>
        /\ result = "Deadlock" =>
              /\ \E i \in ThreadIds : threads[i].st = "BLOCK"
              /\ nconts < run_range(1, Len(threads))
        /\ result = "Panic" <=>
              /\ pi > Len(threads)
              /\ ready # << >>
              /\ threads[last_cont].exc # ""
              /\ err = threads[last_cont].exc
        /\ result \notin RunResults <=>
              /\ pi <= Len(threads)
              /\ threads[pi].exc = "predicate error"
              /\ err = "predicate error"
        /\ (\A j \in 1..Len(Constructors(scn.name, scn.k)) :
                OnlySchedules(Constructors(scn.name, scn.k)[j])) =>
              result = "Timeout"
        /\ scn.name = "deadlock_pair" => result = "Timeout"

\* "deadlock_pair" with max_steps = 1: the second thread is blocked for
\* good, the first was advanced in the last two of the three iterations and
\* the run ends in Timeout
C26_Witness ==
    /\ scn.name = "deadlock_pair"
    /\ max_steps = 1
    /\ epc = "done"
    /\ result = "Timeout"
    /\ it = 3
    /\ nconts = 3
    /\ last_cont = 1
    /\ threads[2].st = "BLOCK"

\* C27: a thread whose body is just finish() contributes nothing to the
\* step count: adding it to a set of threads does not change, for any
\* max_steps, whether the run returns Ok or Timeout.  A thread of k steps
\* alone and with the finish() thread: Ok iff max_steps >= k; the
\* NrThreads + 1 threads of test_multiple_threads alone and with it: Ok iff
\* max_steps >= NrThreads + 2.
C27_FinishThreadIsFree ==
    epc = "done" =>
        /\ scn.name \in {"timeout", "timeout_finish"} =>
              /\ result \in {"Ok", "Timeout"}
              /\ result = "Ok" <=> max_steps >= scn.k
        /\ scn.name \in {"multiple", "multiple_finish"} =>
              /\ result \in {"Ok", "Timeout"}
              /\ result = "Ok" <=> max_steps >= NrThreads + 2

\* at its boundary max_steps = k the run with the added thread ends Ok
C27_Witness ==
    /\ scn.name = "timeout_finish"
    /\ scn.k = 3
    /\ max_steps = 3
    /\ epc = "done"
    /\ result = "Ok"
    /\ threads[2].st = "FINAL"

\* thread i is suspended in schedule()
InSchedule(i) == Alive(i) /\ Top(threads[i]).f = "schedule"

\* thread i has been polled in the current iteration
Polled(i) == (epc = "poll" /\ i < pi) \/ epc = "decide"

\* C28: schedule() is observationally equivalent to cond_schedule with an
\* always-true predicate: a thread in schedule() is suspended with YIELD or
\* READY, never BLOCK; it answers a POLL with READY and nothing else
\* changes; on a CONT it goes on where its caller would after schedule()
\* returned; and test_single_thread gives the same results and flags with
\* schedule() as with cond_schedule(lambda: True) written out.
C28_ScheduleIsCondScheduleTrue ==
    /\ \A i \in ThreadIds :
          InSchedule(i) =>
            /\ threads[i].st \in {"YIELD", "READY"}
            /\ Polled(i) =>
                  (threads[i].st = "READY" /\ i \in Elems(ready))
            /\ Send(threads[i], "POLL", sh) =
                  [thr |-> [threads[i] EXCEPT !.st = "READY"], sh |-> sh,
                   out |-> "yield", e |-> ""]
            /\ Send(threads[i], "CONT", sh) = Advance(Pop(threads[i]), sh)
    /\ (scn.name \in {"single", "single_cond"} /\ epc = "done") =>
          /\ result = (IF max_steps >= 2 THEN "Ok" ELSE "Timeout")
          /\ sh.steps[0]
          /\ sh.steps[1]
          /\ nconts = 2

\* the thread of test_single_thread, polled READY in its schedule()
C28_Witness ==
    /\ scn.name = "single"
    /\ epc = "decide"
    /\ InSchedule(1)
    /\ Len(threads[1].stack) = 3
    /\ threads[1].st = "READY"
    /\ sh.steps[0]
    /\ ~sh.steps[1]

\* register r of processor p is set and holds v
RegIs(p, r, v) == r \in DOMAIN sh.regs[p] /\ sh.regs[p][r] = v

\* C29: in the SB demo (P0: [x]<-1; eax<-[y] and P1: [y]<-1; ebx<-[x], from
\* zeroed memory, run with the default budget) every run returns Ok, with
\* both registers loaded, every store buffer drained and both stores in
\* memory; the witness is a run that ends with eax = 0 and ebx = 0.
C29_SbAlwaysOk ==
    (scn.name = "sb" /\ epc = "done") =>
        /\ result = "Ok"
        /\ RegIs(0, "eax", 0) \/ RegIs(0, "eax", 1)
        /\ RegIs(1, "ebx", 0) \/ RegIs(1, "ebx", 1)
        /\ \A p \in Procs : sh.sb[p] = << >>
        /\ sh.mem["x"] = 1 /\ sh.mem["y"] = 1

\* an SB run that ended Ok with the outcome (eax, ebx) = (0, 0)
C29_Witness ==
    /\ scn.name = "sb"
    /\ epc = "done"
    /\ result = "Ok"
    /\ RegIs(0, "eax", 0)
    /\ RegIs(1, "ebx", 0)

\* C30: in the IRIW demo (P0: [x]<-1; P1: [y]<-1; P2: eax<-[x], ebx<-[y];
\* P3: ecx<-[y], edx<-[x]) the observers never hold
\* (eax, ebx, ecx, edx) = (1, 0, 1, 0), during a run or at its end.
C30_IriwForbidden ==
    scn.name = "iriw" =>
        ~(/\ RegIs(2, "eax", 1)
          /\ RegIs(2, "ebx", 0)
          /\ RegIs(3, "ecx", 1)
          /\ RegIs(3, "edx", 0))

\* an IRIW run that ended with P2 seeing the store to x but not yet the one
\* to y, and P3 seeing both: (1, 0, 1, 1)
C30_Witness ==
    /\ scn.name = "iriw"
    /\ epc = "done"
    /\ result = "Ok"
    /\ RegIs(2, "eax", 1)
    /\ RegIs(2, "ebx", 0)
    /\ RegIs(3, "ecx", 1)
    /\ RegIs(3, "edx", 1)

\* C31: a thread suspends with YIELD at spawn and after every CONT, never
\* with READY, BLOCK or FINAL: spawn leaves every thread at YIELD and goes on
\* to the loop, a CONT that does not raise leaves its thread at YIELD, and no
\* run ends by one of the engine's two assertions.
C31_YieldAfterSpawnAndCont ==
    /\ [](~(result = "Escaped" /\ err = "AssertionError"))
    /\ [][ /\ epc = "spawn" =>
                /\ epc' = "loop"
                /\ \A i \in 1..Len(threads') : threads'[i].st = "YIELD"
           /\ (nconts' = nconts + 1 /\ result' # "Panic") =>
                /\ threads'[last_cont'].st = "YIELD"
                /\ epc' = "loop"
       ]_vars

\* a CONT has brought a thread into finish(), where it is suspended with
\* YIELD, after another thread was polled BLOCK
C31_Witness ==
    /\ epc = "loop"
    /\ nconts > 0
    /\ threads[last_cont].st = "YIELD"
    /\ InFinish(last_cont)
    /\ \E j \in ThreadIds : threads[j].st = "BLOCK"

\* the number of threads run is given
NrCoros == Len(Constructors(scn.name, scn.k))

\* the statements run has still to execute, at most: the iterations left,
\* each a poll of every thread, a decision and a step
Rank ==
    LET w == NrCoros + 3
        left == max_steps + NrCoros - it
    IN  CASE epc = "done" -> 0
          [] epc = "spawn" -> left * w + 2
          [] epc = "loop" -> left * w + 1
          [] epc = "poll" -> left * w + 3 + (NrCoros + 1 - pi)
          [] epc = "decide" -> left * w + 2

\* run has a statement to execute next
Running ==
    \/ epc \in {"spawn", "loop"}
    \/ epc = "poll" /\ pi \in 1..(Len(threads) + 1)
    \/ epc = "decide" /\ (ready = << >> \/ choice(ready) # {})

\* C32 as stated: the loop has at most max_steps + thread_count iterations
\* and every run returns one of the four results.
C32_RunAlwaysReturns ==
    /\ it <= max_steps + Len(threads)
    /\ epc = "done" \/ Running
    /\ epc = "done" => result \in RunResults

\* C32, amended: the loop has at most max_steps + thread_count iterations,
\* and every statement of run brings its end nearer (Rank decreases and is
\* never negative), so every run ends: it returns a result or, when a
\* readiness predicate raised during a poll, it is left by that error.
\* Timeout is returned exactly when all max_steps + thread_count iterations
\* were made, each sent a CONT (its poll found a runnable thread) and no step
\* raised; a thread that loops forever on schedule() always ends so.
C32_LoopIsBounded ==
    /\ [](/\ epc # "spawn" => it <= max_steps + Len(threads)
          /\ Rank >= 0
          /\ epc = "done" \/ Running)
    /\ [][Rank' < Rank]_vars
    /\ [](epc = "done" =>
            /\ \/ result \in RunResults
               \/ result = "Escaped" /\ HasRaisingPredicate
            /\ (result = "Timeout") <=>
                   /\ it = max_steps + Len(threads)
                   /\ nconts = it
                   /\ err = ""
            /\ scn.name = "loop" => result = "Timeout")

\* the thread that loops forever on schedule() has used up the default
\* budget: 1001 iterations, 1001 CONTs, Timeout
C32_Witness ==
    /\ scn.name = "loop"
    /\ max_steps = DefaultMaxSteps
    /\ epc = "done"
    /\ result = "Timeout"
    /\ it = DefaultMaxSteps + 1
    /\ nconts = it

\* The statements code[j..] of a thread built from t, followed to the first
\* finish(): n, the suspensions that need a CONT on the way; fin, finish()
\* was reached; free, no statement on the way can block or raise (it sets a
\* flag, sends to the channel or calls schedule())
RECURSIVE ContsOf(_, _, _)
ContsOf(code, j, t) ==
    IF j > Len(code)
    THEN [n |-> 0, fin |-> FALSE, free |-> TRUE]
    ELSE LET i == code[j]
             rest == ContsOf(code, j + 1, t)
             sub == ContsOf(Code(i.f, i.a, t), 1, t)
         IN  CASE i.op = "finish" -> [n |-> 0, fin |-> TRUE, free |-> TRUE]
               [] i.op = "cond_schedule" ->
                    [n |-> rest.n + 1, fin |-> rest.fin,
                     free |-> rest.free /\ i.f = "True"]
               [] i.op = "yield_from" ->
                    IF sub.fin THEN sub
                    ELSE [n |-> sub.n + rest.n, fin |-> rest.fin,
                          free |-> sub.free /\ rest.free]
               [] i.op \in {"steps_set", "buf_append"} -> rest
               [] OTHER -> [rest EXCEPT !.free = FALSE]

\* k_i: the CONTs the thread built from t needs to reach finish(): one to
\* leave the schedule() the engine puts first, then those of its body
NeededConts(t) == 1 + ContsOf(Body(t), 1, t).n

\* k_1 + ... + k_N over the constructors ts
RECURSIVE SumConts(_)
SumConts(ts) ==
    IF ts = << >> THEN 0 ELSE NeededConts(Head(ts)) + SumConts(Tail(ts))

\* no thread of the run can block or raise
NeverBlocks ==
    \A j \in 1..NrCoros :
        ContsOf(Body(Constructors(scn.name, scn.k)[j]), 1,
                Constructors(scn.name, scn.k)[j]).free

\* C33: for N threads that never block or raise, thread i needing k_i CONTs
\* to reach finish(), run returns Ok if k_1 + ... + k_N <= max_steps + N - 1
\* and Timeout otherwise, whatever the interleaving; a run that returns Ok
\* has sent exactly k_1 + ... + k_N CONTs and made one more iteration.
C33_OkIffContsFit ==
    (NeverBlocks /\ epc = "done") =>
        /\ result = IF SumConts(Constructors(scn.name, scn.k))
                          <= max_steps + NrCoros - 1
                    THEN "Ok" ELSE "Timeout"
        /\ result = "Ok" =>
              /\ nconts = SumConts(Constructors(scn.name, scn.k))
              /\ it = nconts + 1

\* the three threads of test_multiple_threads with max_steps = 3: the sixth
\* and last iteration brought the last thread to finish(), every thread is
\* in finish(), and the run returns Timeout
C33_Witness ==
    /\ scn.name = "multiple"
    /\ max_steps = NrThreads + 1
    /\ epc = "done"
    /\ result = "Timeout"
    /\ nconts = SumConts(Constructors(scn.name, scn.k))
    /\ nconts = max_steps + NrCoros
    /\ \A i \in ThreadIds : InFinish(i)

\* thread number i of ts is the coroutine of the i-th constructor of the
\* scenario, at its first suspension: in the schedule() the wrapper starts
\* with, nothing executed, no local state
Fresh(ts, i) ==
    /\ ts[i].t = Constructors(scn.name, scn.k)[i]
    /\ ts[i].stack = << [f |-> "simthread_wrapper", a |-> 0, pc |-> 1],
                        [f |-> "schedule", a |-> 0, pc |-> 1] >>
    /\ ts[i].st = "YIELD"
    /\ ts[i].val = 0
    /\ ts[i].ret = 0
    /\ ts[i].exc = ""

\* C34: every run of the driver spawns fresh coroutines, one for each
\* constructor of the list made from the iterable, in the order of the list:
\* whatever the threads of the run before had reached, the spawn of a run
\* leaves as many threads as there are constructors, each fresh.
C34_EveryRunSpawnsAfresh ==
    [][ (dpc = "run" /\ epc = "spawn" /\ epc' # "idle") =>
            /\ epc' = "loop"
            /\ Len(threads') = NrCoros
            /\ \A i \in 1..NrCoros : Fresh(threads', i)
      ]_vars

\* the second run of test_simsched_abba_deadlock has spawned its two threads
\* afresh, after a first run that ended Ok with both threads in finish()
C34_Witness ==
    /\ scn.name = "abba"
    /\ dpc = "run"
    /\ epc = "loop"
    /\ it = 0
    /\ nruns = 1
    /\ stats.ok = 1
    /\ Len(threads) = 2
    /\ Fresh(threads, 1)
    /\ Fresh(threads, 2)

\* a run of the driver has returned Deadlock
Deadlocked == stats.deadlock > 0 \/ (epc = "done" /\ result = "Deadlock")

\* C35: in the A,B / B,A scenario under a looper that resets nothing, once a
\* run has returned Deadlock both mutexes stay locked, no lock() takes a
\* mutex any more, and every later run that ends returns Deadlock, after one
\* CONT for each thread.
C35_DeadlockPersists ==
    /\ []((scn.name = "abba" /\ Deadlocked) =>
            /\ sh.locked[0] /\ sh.locked[1]
            /\ epc = "done" => result = "Deadlock")
    /\ [][ (scn.name = "abba" /\ Deadlocked) =>
              /\ sh'.locks = sh.locks
              /\ sh'.locked = sh.locked
              /\ stats'.ok = stats.ok
              /\ (stats.deadlock > 0 /\ epc = "decide" /\ epc' = "done") =>
                    nconts = 2
       ]_vars

\* the run after a run that returned Deadlock has ended in Deadlock too, with
\* both threads blocked at their first lock()
C35_Witness ==
    /\ scn.name = "abba"
    /\ stats.deadlock = 1
    /\ nruns = 1
    /\ dpc = "run"
    /\ epc = "done"
    /\ result = "Deadlock"
    /\ nconts = 2
    /\ sh.locks[0] = 1 /\ sh.locks[1] = 1
    /\ InLock(1, 0)
    /\ InLock(2, 1)

\* thread i is suspended in a cond_schedule whose predicate raises
WaitsOnRaising(i) ==
    /\ InCondSchedule(i)
    /\ CurIns(threads[i]).f = "raises"

\* C36: when a thread whose readiness predicate raises is polled, the error
\* is not turned into Panic: it leaves run, which produces none of the four
\* results; no other thread is polled or stepped after it, and this is the
\* only way a run ends without a result.
C36_PollErrorEscapes ==
    /\ [][ (epc = "poll" /\ pi <= Len(threads) /\ WaitsOnRaising(pi)) =>
              /\ epc' = "done"
              /\ result' = "Escaped"
              /\ result' \notin RunResults
              /\ err' = "predicate error"
              /\ threads'[pi].exc = "predicate error"
              /\ nconts' = nconts
              /\ \A j \in ThreadIds \ {pi} : threads'[j] = threads[j]
       ]_vars
    /\ [](result = "Escaped" =>
            /\ epc = "done"
            /\ err = "predicate error"
            /\ \E i \in ThreadIds : threads[i].exc = "predicate error")

\* the poll of the second iteration reached the thread that waits on the
\* raising predicate, after the first thread was polled READY: run is left by
\* the error
C36_Witness ==
    /\ scn.name = "poll_raises"
    /\ epc = "done"
    /\ result = "Escaped"
    /\ err = "predicate error"
    /\ threads[2].exc = "predicate error"
    /\ threads[1].st = "READY"
    /\ nconts = 1

\* in "unlock_steal": the holder (thread 1) is inside its critical section
HolderInside == sh.steps[0] /\ ~sh.steps[1]

\* in "unlock_steal": the third thread (thread 3) has taken the mutex
ThirdInside == sh.steps[2]

\* in "unlock_steal": the thief (thread 2) is spawned and has not executed
\* its unlock() yet: it is suspended in the schedule() its wrapper starts with
ThiefAtStart ==
    /\ Len(threads) = 3
    /\ threads[2].stack = << [f |-> "simthread_wrapper", a |-> 0, pc |-> 1],
                             [f |-> "schedule", a |-> 0, pc |-> 1] >>

\* C40: unlock() checks no ownership.  The thread of
\* test_mutex_single_unlock, which never locked the mutex, unlocks it without
\* error (given max_steps for its two steps).  A thief that unlocks a mutex
\* held by another thread succeeds and clears locked and owner; and the
\* third thread is inside together with the holder only after such an
\* unlock, its lock() having found the mutex free.
C40_UnlockChecksNoOwner ==
    /\ []((scn.name = "single_unlock" /\ epc = "done") =>
            IF max_steps >= 2
            THEN /\ result = "Ok"
                 /\ ~sh.locked[0]
                 /\ sh.owner[0] = "None"
                 /\ sh.locks[0] = 0
                 /\ sh.unlocks[0] = 1
            ELSE result = "Timeout")
    /\ [][ (/\ scn.name = "unlock_steal"
            /\ nconts' = nconts + 1
            /\ last_cont' = 2
            /\ ThiefAtStart
            /\ sh.locked[0]) =>
              /\ threads'[2].exc = ""
              /\ result' # "Panic"
              /\ ~sh'.locked[0]
              /\ sh'.owner[0] = "None"
              /\ sh'.unlocks[0] = sh.unlocks[0] + 1
              /\ sh'.locks[0] = sh.locks[0]
       ]_vars
    /\ []((scn.name = "unlock_steal" /\ HolderInside /\ ThirdInside) =>
            /\ sh.locks[0] = 2
            /\ sh.unlocks[0] = 1
            /\ sh.prior[0] = [locked |-> FALSE, owner |-> "None"]
            /\ threads[2].exc = "")

\* the thief has unlocked the holder's mutex and the third thread has locked
\* it: holder and third thread are both inside
C40_Witness ==
    /\ scn.name = "unlock_steal"
    /\ HolderInside
    /\ ThirdInside
    /\ sh.locked[0]
    /\ sh.owner[0] = "None"
    /\ sh.locks[0] = 2
    /\ sh.unlocks[0] = 1
    /\ threads[2].exc = ""

\* -------------------------------------- fences, locks and own stores (TSO)

\* the step continues thread i: run sent it CONT and it moved on
Continued(i) == threads'[i].stack # threads[i].stack

\* the statement after the one thread thr is suspended in, if there is one
HasNextIns(thr) ==
    /\ thr.stack # << >>
    /\ Top(thr).pc + 1 <= Len(TopCode(thr))

NextIns(thr) == TopCode(thr)[Top(thr).pc + 1]

\* thread i waits in the cond_schedule of a mov(Reg, Addr): the statement
\* that follows is the load into the register
AtLoad(i) ==
    /\ HasNextIns(threads[i])
    /\ CurIns(threads[i]).op = "cond_schedule"
    /\ NextIns(threads[i]).op = "reg_load"

\* thread i is a store-buffer thread that waits before its write to memory
AtFlush(i) ==
    /\ HasNextIns(threads[i])
    /\ CurIns(threads[i]).op = "cond_schedule"
    /\ NextIns(threads[i]).op = "mem_write"

\* thread i waits in the cond_schedule of an mfence
AtFence(i) ==
    /\ threads[i].stack # << >>
    /\ Top(threads[i]).pc <= Len(TopCode(threads[i]))
    /\ CurIns(threads[i]).op = "cond_schedule"
    /\ CurIns(threads[i]).f = "tx_empty"

\* C37: a store-buffer thread writes its head entry to memory only in a step
\* where the memory lock is unheld or held by its own processor, and a load
\* completes only in a step where the lock is unheld; memory is written by
\* store-buffer threads only, so while a processor holds the lock memory
\* changes only from that processor's store buffer.
C37_LockFencesMemory ==
    [][ /\ \A i \in DOMAIN threads :
              Continued(i) =>
                /\ AtFlush(i) =>
                     LET p == NextIns(threads[i]).a
                         head == Head(sh.sb[p])
                     IN  /\ ~sh.locked[0] \/ sh.owner[0] = ProcOwner(p)
                         /\ head # NoneItem
                         /\ sh'.mem = [sh.mem EXCEPT ![head.addr] = head.val]
                         /\ sh'.sb[p] = Tail(sh.sb[p])
                /\ AtLoad(i) => ~sh.locked[0]
        /\ sh'.mem # sh.mem =>
              \E i \in DOMAIN threads :
                  /\ Continued(i)
                  /\ AtFlush(i)
                  /\ sh.locked[0] =>
                        sh.owner[0] = ProcOwner(NextIns(threads[i]).a)
      ]_vars

\* processor 0 holds the memory lock and its exchanged value has reached
\* memory, while the store of processor 1 is pending with its store-buffer
\* thread blocked before the write, and the load of processor 1 is blocked
C37_Witness ==
    /\ scn.name = "locked"
    /\ sh.locked[0]
    /\ sh.owner[0] = ProcOwner(0)
    /\ sh.mem["x"] = 1
    /\ sh.sb[1] # << >>
    /\ sh.mem["y"] = 0
    /\ AtFlush(4)
    /\ threads[4].st = "BLOCK"
    /\ AtLoad(2)
    /\ threads[2].st = "BLOCK"

\* C38: a load returns the value of the newest store to the address pending
\* in the loading processor's own store buffer, and the value in memory only
\* when no such store is pending; the processor of Ex_8_4_Demo ends with
\* eax = 1, and after the stores of 1 and 2 to one address a load gives 2.
C38_LoadSeesOwnStores ==
    /\ [][ \A i \in DOMAIN threads :
              (Continued(i) /\ AtLoad(i)) =>
                LET ld == NextIns(threads[i])
                    p == ld.a[1]
                    addr == ld.a[2]
                    buf == sh.sb[p]
                    pending == {j \in 1..Len(buf) : buf[j].addr = addr}
                IN  /\ ld.f \in DOMAIN sh'.regs[p]
                    /\ IF pending = {}
                       THEN sh'.regs[p][ld.f] = sh.mem[addr]
                       ELSE \E j \in pending :
                               /\ \A k \in pending : k <= j
                               /\ sh'.regs[p][ld.f] = buf[j].val
         ]_vars
    /\ []((scn.name = "ex_8_4" /\ epc = "done") => RegIs(0, "eax", 1))
    /\ []((scn.name = "store_twice" /\ epc = "done") => RegIs(0, "eax", 2))

\* Ex_8_4_Demo: eax holds the 1 of the processor's own store while the store
\* is still pending and memory holds 0
C38_Witness ==
    /\ scn.name = "ex_8_4"
    /\ RegIs(0, "eax", 1)
    /\ sh.mem["x"] = 0
    /\ sh.sb[0] # << >>
    /\ Head(sh.sb[0]) = StoreItem("x", 1)

\* C39: mfence returns only in a step where the processor's own store buffer
\* is empty, its earlier stores in memory; Amd5Demo, the SB program with an
\* mfence between store and load, never ends with eax = 0 and ebx = 0.
C39_MfenceDrainsStores ==
    /\ [][ \A i \in DOMAIN threads :
              (Continued(i) /\ AtFence(i)) =>
                LET p == CurIns(threads[i]).a
                IN  /\ sh.sb[p] = << >>
                    /\ scn.name = "amd5" =>
                          sh.mem[IF p = 0 THEN "x" ELSE "y"] = 1
         ]_vars
    /\ []((scn.name = "amd5" /\ epc = "done") =>
            /\ result = "Ok"
            /\ ~(RegIs(0, "eax", 0) /\ RegIs(1, "ebx", 0)))

\* Amd5Demo: processor 0 is past its mfence, its store in memory, and has
\* loaded y = 0 while the store of processor 1 is still pending
C39_Witness ==
    /\ scn.name = "amd5"
    /\ sh.mem["x"] = 1
    /\ RegIs(0, "eax", 0)
    /\ sh.sb[1] # << >>
    /\ Head(sh.sb[1]) = StoreItem("y", 1)
    /\ sh.mem["y"] = 0

====
